---- MODULE Spec2Model ----
(***************************************************************************)
(* Model of aws-waf-temp-access: the grant (index.js) and revoke           *)
(* (cleanup.js) mutators of a WAF IPSet guarded by a LockToken, and of a   *)
(* security group's ingress rules.  Several independent runner processes   *)
(* call the mutators against the same IPSet / security group; every await  *)
(* of the code (a store call, a backoff sleep) is an interleaving point.   *)
(* A run is main() (inputs, getPublicIP, the grants) followed by the post  *)
(* step cleanup(), which revokes what core.saveState recorded.              *)
(*                                                                         *)
(* A JavaScript string is a sequence of one-symbol strings, so that        *)
(* includes('/') and the `${ip}/32` template are computed, not assumed.    *)
(***************************************************************************)
EXTENDS Naturals, Sequences, FiniteSets

\* ------------------------------------------------------------- bounds
\* Spec: NProcs processes race on the IPSet, each making one call, and up
\* to RaceFaults store calls fail.
NProcs == 2
RaceFaults == 1
\* SpecSeq: one process makes SeqCalls calls one after the other.
SeqCalls == 2
SeqExternal == 1
SeqFaults == 1
\* SpecStorm: one call meets up to StormExternal racing updates and
\* StormFaults failing store calls.
StormExternal == 10
StormFaults == 10
\* SpecRun: one run of main() and then cleanup() meets up to RunExternal
\* racing updates and RunFaults failing store calls.
RunExternal == 2
RunFaults == 5

\* The post step alone: updates by other writers and failing store calls
\* during one cleanup().
CleanupExternal == 10
CleanupFaults == 10

\* Several runs at once on one IPSet: failing store calls.
PairedFaults == 1

\* ------------------------------------------------- program constants
maxRetries == 10
sgMaxRetries == 5
baseDelay == 1000

Procs == 1..NProcs

\* The ipAddress arguments tried: a bare address, the same address already
\* in CIDR form, and a range.
Inputs == { <<"a">>, <<"a", "/", "3", "2">>, <<"b", "/", "2", "4">> }

\* An entry owned by a writer outside the modelled processes.
Foreign == <<"x", "/", "3", "2">>

\* Address lists the IPSet may hold before any modelled call.
InitialAddresses == { <<>>, <<Foreign>>, <<<<"a", "/", "3", "2">>, Foreign>> }

\* Samples of Math.random() * 1000, which lies in [0, 1000).
Jitter == {0, 999}

\* Names of store errors other than the three the code tests for.
OtherErrors == {"WAFInternalErrorException"}

IPSetFns == {"addIPToIPSet", "removeIPFromIPSet"}
SGFns == {"addIPToSecurityGroup", "removeIPFromSecurityGroup"}

\* The Error thrown after the retry loop of addIPToIPSet.
LockConflictsError == "Error: Failed to add IP to IPSet after attempts due to lock conflicts"

NoError == "none"
NoCommand == [Addresses |-> <<>>, LockToken |-> 0, CidrIp |-> <<>>, Description |-> <<>>]
NoResponse == [Addresses |-> <<>>, LockToken |-> 0]
NoRead == [attempt |-> 0, Addresses |-> <<>>, LockToken |-> 0]
NoPrev == [fn |-> "none", ipAddress |-> <<>>, outcome |-> "none"]

\* Mutant: the scope is accepted in either case.
Scopes_anyCase ==
  { <<"CLOUDFRONT">>, <<"REGIONAL">>, <<"cloudfront">>, <<"regional">> }

\* IPSetScope is one of the scopes main() accepts.
Scopes == { <<"CLOUDFRONT">>, <<"REGIONAL">> }

\* Identifiers of the one IPSet / security group all processes share.
IPSetId == <<"ipset-id">>
IPSetName == <<"ipset-name">>
IPSetScope == <<"REGIONAL">>
Region == <<"us-east-1">>
GroupId == <<"sg-1">>
Description == <<"description">>

\* The value of a parameter the caller left out.
undefined == <<"undefined">>

\* The description argument of a direct call: given, or left out.
DescriptionArgs == {Description, undefined}

\* The address services of getPublicIP, what they may answer, and the
\* messages of the errors they may fail with.
PrimaryUrl == "https://api.ipify.org?format=text"
FallbackUrl == "https://icanhazip.com/"
Whitespace == {" ", "\n"}
PrimaryData == { <<" ", "a", " ">> }
FallbackData == { <<"b", "\n">> }
PrimaryErrors == { <<"Primary service failed">> }
FallbackErrors == { <<"Secondary service failed">> }

\* The message of the Error main() throws when no target is configured.
NoTargetError == <<"Either WAF IPSet configuration (id, name) or Security Group configuration (security-group-id) must be provided">>

\* The inputs of a run: IPSet only, security group only, both, neither, and
\* an IPSet with a scope that is none of the two allowed (another word, the
\* wrong case, the empty string).
Configs ==
  { [id |-> IPSetId, name |-> IPSetName, scope |-> <<"CLOUDFRONT">>, region |-> Region,
     securityGroupId |-> <<>>, securityGroupDescription |-> Description],
    [id |-> <<>>, name |-> <<>>, scope |-> IPSetScope, region |-> Region,
     securityGroupId |-> GroupId, securityGroupDescription |-> Description],
    [id |-> IPSetId, name |-> IPSetName, scope |-> IPSetScope, region |-> Region,
     securityGroupId |-> GroupId, securityGroupDescription |-> Description],
    [id |-> <<>>, name |-> IPSetName, scope |-> IPSetScope, region |-> Region,
     securityGroupId |-> <<>>, securityGroupDescription |-> Description],
    [id |-> IPSetId, name |-> IPSetName, scope |-> <<"GLOBAL">>, region |-> Region,
     securityGroupId |-> GroupId, securityGroupDescription |-> Description],
    [id |-> IPSetId, name |-> IPSetName, scope |-> <<"regional">>, region |-> Region,
     securityGroupId |-> <<>>, securityGroupDescription |-> Description],
    [id |-> IPSetId, name |-> IPSetName, scope |-> <<>>, region |-> Region,
     securityGroupId |-> GroupId, securityGroupDescription |-> Description] }

NoConfig == [id |-> <<>>, name |-> <<>>, scope |-> <<>>, region |-> <<>>,
             securityGroupId |-> <<>>, securityGroupDescription |-> <<>>]
NoAnswer == [url |-> "none", data |-> <<>>]
NoFailure == <<>>
NoOutputs == [ipAddress |-> <<>>, status |-> <<>>]

StateKeys == {"runner-ip", "ipset-id", "ipset-name", "ipset-scope", "aws-region",
              "sg-runner-ip", "sg-group-id", "sg-description", "sg-aws-region"}
EmptyState == [k \in StateKeys |-> <<>>]

VARIABLES
  addresses,      \* IPSet.Addresses held by the store
  lockToken,      \* the IPSet's current LockToken
  sgRules,        \* CidrIp of the tcp/443 ingress rules of the security group
  extLeft,        \* updates that writers outside the model may still make
  initial,        \* IPSet.Addresses before any modelled call (history)
  initialRules,   \* the security group's rules before any modelled call (history)
  faultsLeft,     \* store calls that may still fail with an error of OtherErrors
  pc,             \* where each process is: idle, get, update, send, sleep
  fn,             \* the function each process is (or was last) running
  ipAddress,      \* its ipAddress argument
  attempt,        \* its loop counter
  ipSetResponse,  \* const ipSetResponse of the current attempt
  command,        \* the command handed to client.send and not yet answered
  delay,          \* the delay of the setTimeout being awaited
  outcome,        \* running, returned, threw
  error,          \* the error thrown to the caller
  savedState,     \* core.saveState of each process
  callsLeft,      \* calls each process may still start
  reads,          \* GetIPSet commands sent in the current call
  writes,         \* UpdateIPSet commands sent in the current call
  sends,          \* security-group commands sent in the current call
  sleeps,         \* setTimeout sleeps started in the current call
  conflicts,      \* WAFOptimisticLockException answers in the current call
  saves,          \* whether the current call reached its core.saveState lines
  lastRead,       \* what the store answered to the latest GetIPSet of each process
  prev,           \* the call each process completed before the current one
  phase,          \* where the run of main() and cleanup() of each process is
  config,         \* the inputs main() read with core.getInput
  publicIP,       \* const publicIP of main()
  answer,         \* the response of the address service that getPublicIP returned from
  contacted,      \* the address services asked so far, in order
  failed,         \* the message given to core.setFailed
  outputs,        \* what core.setOutput has set
  calls           \* the mutator calls made by main() and cleanup(), with arguments

storeVars == <<addresses, lockToken, sgRules, extLeft, initial, initialRules>>
localVars == <<fn, ipAddress, attempt, ipSetResponse, command, delay, outcome,
               error, savedState, callsLeft>>
ghostVars == <<reads, writes, sends, sleeps, conflicts, saves, lastRead, prev>>
callVars == <<pc, fn, ipAddress, attempt, ipSetResponse, command, delay, outcome,
              error, reads, writes, sends, sleeps, conflicts, saves, lastRead, prev>>
runVars == <<phase, config, publicIP, answer, contacted, failed, outputs, calls>>
vars == <<addresses, lockToken, sgRules, extLeft, initial, initialRules,
          faultsLeft, pc, fn, ipAddress,
          attempt, ipSetResponse, command, delay, outcome, error, savedState,
          callsLeft, reads, writes, sends, sleeps, conflicts, saves, lastRead, prev,
          phase, config, publicIP, answer, contacted, failed, outputs, calls>>

\* ----------------------------------------------------- pure helpers

RECURSIVE Pow2(_)
Pow2(n) == IF n = 0 THEN 1 ELSE 2 * Pow2(n - 1)

\* ipAddress.includes('/')
includesSlash(s) == \E i \in DOMAIN s : s[i] = "/"

\* Mutant: the address is used as given, never normalized.
ipWithCidr_asGiven(ip) == ip

ipWithCidr(ip) == IF includesSlash(ip) THEN ip ELSE ip \o <<"/", "3", "2">>

\* currentAddresses.includes(x)
includes(list, x) == \E i \in DOMAIN list : list[i] = x

\* Mutant: the list of the first attempt is kept for the later attempts.
currentAddressesOf_firstAttempt(p, response) ==
  IF attempt[p] = 0 THEN response.Addresses ELSE ipSetResponse[p].Addresses

\* const currentAddresses = ipSetResponse.IPSet.Addresses || [], read from
\* the response of this attempt (p's earlier response is still in
\* ipSetResponse[p] when this is evaluated)
currentAddressesOf(p, response) == response.Addresses

\* Mutant: the lookup is made with the address as given.
alreadyInSet_asGiven(currentAddresses, ip) == includes(currentAddresses, ip)

\* Mutant: the entry is added whether or not it is there.
alreadyInSet_never(currentAddresses, ip) == FALSE

\* if (currentAddresses.includes(ipWithCidr)) in addIPToIPSet
alreadyInSet(currentAddresses, ip) == includes(currentAddresses, ipWithCidr(ip))

\* Mutant: the early return is missing.
notInSet_never(currentAddresses, ip) == FALSE

\* Mutant: the membership test of a revoke is made on the CIDR form.
notInSet_normalized(currentAddresses, ip) ==
  ~includes(currentAddresses, ipWithCidr(ip))

\* if (!currentAddresses.includes(ipAddress)) in removeIPFromIPSet
notInSet(currentAddresses, ip) == ~includes(currentAddresses, ip)

\* Mutant: the entry is put in front of the list.
grantAddresses_prepend(currentAddresses, entry) == <<entry>> \o currentAddresses

\* [...currentAddresses, ipWithCidr]
grantAddresses(currentAddresses, entry) == Append(currentAddresses, entry)

\* currentAddresses.filter(addr => addr !== ipAddress)
Keep(addr, entry) == addr # entry
\* Mutant: the list is emptied.
revokeAddresses_clear(currentAddresses, entry) == <<>>

revokeAddresses(currentAddresses, entry) ==
  SelectSeq(currentAddresses, LAMBDA addr : Keep(addr, entry))

\* new UpdateIPSetCommand({..., Addresses, LockToken: ipSetResponse.LockToken})
UpdateIPSetCommand(updatedAddresses, response) ==
  [Addresses |-> updatedAddresses, LockToken |-> response.LockToken, CidrIp |-> <<>>,
   Description |-> <<>>]

\* new Authorize/RevokeSecurityGroupIngressCommand({... IpRanges: [{CidrIp,
\* Description}] ...})
IngressCommand(cidr, description) ==
  [Addresses |-> <<>>, LockToken |-> 0, CidrIp |-> cidr, Description |-> description]

\* Mutant: the exponent is the index of the attempt that follows the sleep.
lockDelay_nextAttempt(k, jitter) == baseDelay * Pow2(k + 1) + jitter

lockDelay(k, jitter) == baseDelay * Pow2(k) + jitter
plainDelay(k) == baseDelay * Pow2(k)

\* ------------------------------------------------------------- Init

ProcessInit ==
  /\ pc = [p \in Procs |-> "idle"]
  /\ fn = [p \in Procs |-> "none"]
  /\ ipAddress = [p \in Procs |-> <<>>]
  /\ attempt = [p \in Procs |-> 0]
  /\ ipSetResponse = [p \in Procs |-> NoResponse]
  /\ command = [p \in Procs |-> NoCommand]
  /\ delay = [p \in Procs |-> 0]
  /\ outcome = [p \in Procs |-> "none"]
  /\ error = [p \in Procs |-> NoError]
  /\ savedState = [p \in Procs |-> EmptyState]
  /\ reads = [p \in Procs |-> 0]
  /\ writes = [p \in Procs |-> 0]
  /\ sends = [p \in Procs |-> 0]
  /\ sleeps = [p \in Procs |-> 0]
  /\ conflicts = [p \in Procs |-> 0]
  /\ saves = [p \in Procs |-> FALSE]
  /\ lastRead = [p \in Procs |-> NoRead]
  /\ prev = [p \in Procs |-> NoPrev]
  /\ config = [p \in Procs |-> NoConfig]
  /\ publicIP = [p \in Procs |-> <<>>]
  /\ answer = [p \in Procs |-> NoAnswer]
  /\ contacted = [p \in Procs |-> <<>>]
  /\ failed = [p \in Procs |-> NoFailure]
  /\ outputs = [p \in Procs |-> NoOutputs]
  /\ calls = [p \in Procs |-> <<>>]

\* Every process is about to make its one call; the only writers of the
\* IPSet are the processes themselves.
Init ==
  /\ addresses \in InitialAddresses
  /\ initial = addresses
  /\ lockToken = 1
  /\ sgRules = {}
  /\ initialRules = sgRules
  /\ callsLeft = [p \in Procs |-> 1]
  /\ extLeft = 0
  /\ faultsLeft = RaceFaults
  /\ phase = [p \in Procs |-> "off"]
  /\ ProcessInit


\* ---------------------------------------------- how a call ends

\* return;
Return(p) ==
  /\ pc' = [pc EXCEPT ![p] = "idle"]
  /\ outcome' = [outcome EXCEPT ![p] = "returned"]
  /\ delay' = [delay EXCEPT ![p] = 0]
  /\ UNCHANGED <<error, sleeps>>

\* throw e;
Throw(p, e) ==
  /\ pc' = [pc EXCEPT ![p] = "idle"]
  /\ outcome' = [outcome EXCEPT ![p] = "threw"]
  /\ error' = [error EXCEPT ![p] = e]
  /\ delay' = [delay EXCEPT ![p] = 0]
  /\ UNCHANGED sleeps

\* await client.send(command): the call waits for the store's answer.
Await(p, where) ==
  /\ pc' = [pc EXCEPT ![p] = where]
  /\ delay' = [delay EXCEPT ![p] = 0]
  /\ UNCHANGED <<outcome, error, sleeps>>

\* await new Promise(resolve => setTimeout(resolve, d))
Sleep(p, d) ==
  /\ pc' = [pc EXCEPT ![p] = "sleep"]
  /\ delay' = [delay EXCEPT ![p] = d]
  /\ sleeps' = [sleeps EXCEPT ![p] = @ + 1]
  /\ UNCHANGED <<outcome, error>>

\* ------------------------------------------------- the caller

\* The arguments of addIPToIPSet / removeIPFromIPSet(client(region), id,
\* name, scope, ip).
IPSetCall(f, region, id, name, scope, ip) ==
  [fn |-> f, ipAddress |-> ip, id |-> id, name |-> name, scope |-> scope,
   region |-> region, groupId |-> <<>>, description |-> <<>>]

\* The arguments of addIPToSecurityGroup / removeIPFromSecurityGroup(
\* client(region), groupId, ip, description).
SecurityGroupCall(f, region, groupId, ip, description) ==
  [fn |-> f, ipAddress |-> ip, id |-> <<>>, name |-> <<>>, scope |-> <<>>,
   region |-> region, groupId |-> groupId, description |-> description]

\* The arguments of the call a process is running (or ran last).
currentCall(p) == calls[p][Len(calls[p])]

\* await f(client, ..., ip): the call starts and runs to its first await.
Invoke(p, call) ==
  /\ pc[p] = "idle"
  /\ calls' = [calls EXCEPT ![p] = Append(@, call)]
  /\ prev' = [prev EXCEPT ![p] =
                [fn |-> fn[p], ipAddress |-> ipAddress[p], outcome |-> outcome[p]]]
  /\ fn' = [fn EXCEPT ![p] = call.fn]
  /\ ipAddress' = [ipAddress EXCEPT ![p] = call.ipAddress]
  /\ attempt' = [attempt EXCEPT ![p] = 0]
  /\ outcome' = [outcome EXCEPT ![p] = "running"]
  /\ error' = [error EXCEPT ![p] = NoError]
  /\ ipSetResponse' = [ipSetResponse EXCEPT ![p] = NoResponse]
  /\ lastRead' = [lastRead EXCEPT ![p] = NoRead]
  /\ reads' = [reads EXCEPT ![p] = 0]
  /\ writes' = [writes EXCEPT ![p] = 0]
  /\ sends' = [sends EXCEPT ![p] = 0]
  /\ sleeps' = [sleeps EXCEPT ![p] = 0]
  /\ conflicts' = [conflicts EXCEPT ![p] = 0]
  /\ saves' = [saves EXCEPT ![p] = FALSE]
  /\ IF call.fn \in IPSetFns
       THEN /\ pc' = [pc EXCEPT ![p] = "get"]
            /\ command' = [command EXCEPT ![p] = NoCommand]
       ELSE /\ pc' = [pc EXCEPT ![p] = "send"]
            /\ command' = [command EXCEPT ![p] =
                 IngressCommand(IF call.fn = "addIPToSecurityGroup"
                                  THEN ipWithCidr(call.ipAddress)
                                  ELSE call.ipAddress,
                                call.description)]
  /\ delay' = [delay EXCEPT ![p] = 0]
  /\ UNCHANGED <<storeVars, faultsLeft, savedState>>

\* A process calls one of the four mutators with an ipAddress argument; a
\* security-group mutator is called with or without a description.
Call(p, f, ip) ==
  /\ callsLeft[p] > 0
  /\ callsLeft' = [callsLeft EXCEPT ![p] = @ - 1]
  /\ IF f \in IPSetFns
       THEN Invoke(p, IPSetCall(f, Region, IPSetId, IPSetName, IPSetScope, ip))
       ELSE \E d \in DescriptionArgs :
              Invoke(p, SecurityGroupCall(f, Region, GroupId, ip, d))
  /\ UNCHANGED <<phase, config, publicIP, answer, contacted, failed, outputs>>

\* ------------------------------------------------- the stores

\* A writer that is none of the modelled processes (another workflow, an
\* operator) updates the IPSet: its own entry comes or goes, and the
\* LockToken changes as on every accepted update.
ExternalUpdate ==
  /\ extLeft > 0
  /\ \E p \in Procs : pc[p] = "update" /\ command[p].LockToken = lockToken
  /\ extLeft' = extLeft - 1
  /\ lockToken' = lockToken + 1
  /\ addresses' = IF includes(addresses, Foreign)
                    THEN revokeAddresses(addresses, Foreign)
                    ELSE Append(addresses, Foreign)
  /\ UNCHANGED <<sgRules, initial, initialRules, faultsLeft, pc, localVars,
                 ghostVars, runVars>>

\* A store call fails with an error of OtherErrors.
Fault ==
  /\ faultsLeft > 0
  /\ faultsLeft' = faultsLeft - 1

\* What GetIPSet answers.
GetIPSetResponse == [Addresses |-> addresses, LockToken |-> lockToken]

\* Mutant: the LockToken of a command is not looked at.
TokenIsCurrent_anyToken(cmd) == cmd.LockToken \in 1..lockToken

\* Whether the store accepts an UpdateIPSet command.
TokenIsCurrent(cmd) == cmd.LockToken = lockToken

\* An accepted UpdateIPSet.
StoreUpdate(cmd) ==
  /\ addresses' = cmd.Addresses
  /\ lockToken' = lockToken + 1
  /\ UNCHANGED <<sgRules, extLeft, initial, initialRules>>

\* ------------------------------------------- addIPToIPSet (index.js)

\* Mutant: every error is taken for a lock conflict and retried.
addIPToIPSet_catch_retryAll(p, e) ==
  \E j \in Jitter : Sleep(p, lockDelay(attempt[p], j))

\* catch (error) of addIPToIPSet
addIPToIPSet_catch(p, e) ==
  IF e = "WAFOptimisticLockException"
    THEN \E j \in Jitter : Sleep(p, lockDelay(attempt[p], j))
    ELSE Throw(p, e)

\* Mutant: the region is not saved.
addIPToIPSet_saveState_noRegion(p, entry) ==
  /\ savedState' = [savedState EXCEPT ![p] =
       [@ EXCEPT !["runner-ip"] = entry, !["ipset-id"] = currentCall(p).id,
                 !["ipset-name"] = currentCall(p).name,
                 !["ipset-scope"] = currentCall(p).scope]]
  /\ saves' = [saves EXCEPT ![p] = TRUE]

\* core.saveState(...) x5 after the accepted update
addIPToIPSet_saveState(p, entry) ==
  /\ savedState' = [savedState EXCEPT ![p] =
       [@ EXCEPT !["runner-ip"] = entry, !["ipset-id"] = currentCall(p).id,
                 !["ipset-name"] = currentCall(p).name,
                 !["ipset-scope"] = currentCall(p).scope,
                 !["aws-region"] = currentCall(p).region]]
  /\ saves' = [saves EXCEPT ![p] = TRUE]

\* GetIPSet is answered; the entry is looked up; the update is sent.
addIPToIPSet_get(p) ==
  /\ pc[p] = "get" /\ fn[p] = "addIPToIPSet"
  /\ reads' = [reads EXCEPT ![p] = @ + 1]
  /\ \/ LET response == GetIPSetResponse
            currentAddresses == currentAddressesOf(p, response)
            entry == ipWithCidr(ipAddress[p])
        IN /\ UNCHANGED faultsLeft
           /\ ipSetResponse' = [ipSetResponse EXCEPT ![p] = response]
           /\ lastRead' = [lastRead EXCEPT ![p] =
                [attempt |-> attempt[p], Addresses |-> response.Addresses,
                 LockToken |-> response.LockToken]]
           /\ IF alreadyInSet(currentAddresses, ipAddress[p])
                THEN Return(p) /\ UNCHANGED command
                ELSE /\ command' = [command EXCEPT ![p] =
                          UpdateIPSetCommand(grantAddresses(currentAddresses, entry),
                                             response)]
                     /\ Await(p, "update")
     \/ \E e \in OtherErrors :
           /\ Fault
           /\ addIPToIPSet_catch(p, e)
           /\ UNCHANGED <<ipSetResponse, lastRead, command>>
  /\ UNCHANGED <<storeVars, fn, ipAddress, attempt, savedState, callsLeft,
                 writes, sends, conflicts, saves, prev, runVars>>

\* UpdateIPSet is answered.
addIPToIPSet_update(p) ==
  /\ pc[p] = "update" /\ fn[p] = "addIPToIPSet"
  /\ writes' = [writes EXCEPT ![p] = @ + 1]
  /\ \/ /\ TokenIsCurrent(command[p])
        /\ StoreUpdate(command[p])
        /\ addIPToIPSet_saveState(p, ipWithCidr(ipAddress[p]))
        /\ Return(p)
        /\ UNCHANGED <<conflicts, faultsLeft>>
     \/ /\ ~TokenIsCurrent(command[p])
        /\ conflicts' = [conflicts EXCEPT ![p] = @ + 1]
        /\ addIPToIPSet_catch(p, "WAFOptimisticLockException")
        /\ UNCHANGED <<storeVars, faultsLeft, savedState, saves>>
     \/ \E e \in OtherErrors :
           /\ Fault
           /\ addIPToIPSet_catch(p, e)
           /\ UNCHANGED <<storeVars, savedState, saves, conflicts>>
  /\ UNCHANGED <<fn, ipAddress, attempt, ipSetResponse, command, callsLeft,
                 reads, sends, lastRead, prev, runVars>>

\* Mutant: the loop makes one attempt more (attempt <= maxRetries).
addIPToIPSet_retry_oneMore(p) ==
  /\ pc[p] = "sleep" /\ fn[p] = "addIPToIPSet"
  /\ attempt' = [attempt EXCEPT ![p] = @ + 1]
  /\ IF attempt[p] + 1 <= maxRetries
       THEN Await(p, "get")
       ELSE Throw(p, LockConflictsError)
  /\ UNCHANGED <<storeVars, faultsLeft, fn, ipAddress, ipSetResponse,
                 command, savedState, callsLeft, reads, writes, sends, conflicts,
                 saves, lastRead, prev, runVars>>

\* Mutant: the rejected command is sent again without a new GetIPSet.
addIPToIPSet_retry_resend(p) ==
  /\ pc[p] = "sleep" /\ fn[p] = "addIPToIPSet"
  /\ attempt' = [attempt EXCEPT ![p] = @ + 1]
  /\ IF attempt[p] + 1 < maxRetries
       THEN Await(p, "update")
       ELSE Throw(p, LockConflictsError)
  /\ UNCHANGED <<storeVars, faultsLeft, fn, ipAddress, ipSetResponse,
                 command, savedState, callsLeft, reads, writes, sends, conflicts,
                 saves, lastRead, prev, runVars>>

\* The sleep is over: continue; attempt++; attempt < maxRetries, else the
\* throw after the loop.
addIPToIPSet_retry(p) ==
  /\ pc[p] = "sleep" /\ fn[p] = "addIPToIPSet"
  /\ attempt' = [attempt EXCEPT ![p] = @ + 1]
  /\ IF attempt[p] + 1 < maxRetries
       THEN Await(p, "get")
       ELSE Throw(p, LockConflictsError)
  /\ UNCHANGED <<storeVars, faultsLeft, fn, ipAddress, ipSetResponse,
                 command, savedState, callsLeft, reads, writes, sends, conflicts,
                 saves, lastRead, prev, runVars>>

\* ------------------------------------- removeIPFromIPSet (cleanup.js)

\* Mutant: as in addIPToIPSet, an error that is no lock conflict is rethrown.
removeIPFromIPSet_catch_rethrow(p, e) ==
  IF e = "WAFOptimisticLockException"
    THEN \E j \in Jitter : Sleep(p, lockDelay(attempt[p], j))
    ELSE Throw(p, e)

\* Mutant: an error that is no lock conflict ends the cleanup at once.
removeIPFromIPSet_catch_failFast(p, e) ==
  IF e = "WAFOptimisticLockException"
    THEN \E j \in Jitter : Sleep(p, lockDelay(attempt[p], j))
    ELSE Return(p)

\* catch (error) of removeIPFromIPSet
\* Mutant: no sleep after the lock conflict of the last attempt.
removeIPFromIPSet_catch_noLastSleep(p, e) ==
  IF attempt[p] = maxRetries - 1
    THEN Return(p)
    ELSE IF e = "WAFOptimisticLockException"
           THEN \E j \in Jitter : Sleep(p, lockDelay(attempt[p], j))
           ELSE Sleep(p, plainDelay(attempt[p]))

removeIPFromIPSet_catch(p, e) ==
  IF e = "WAFOptimisticLockException"
    THEN \E j \in Jitter : Sleep(p, lockDelay(attempt[p], j))
    ELSE IF attempt[p] = maxRetries - 1
           THEN Return(p)
           ELSE Sleep(p, plainDelay(attempt[p]))

removeIPFromIPSet_get(p) ==
  /\ pc[p] = "get" /\ fn[p] = "removeIPFromIPSet"
  /\ reads' = [reads EXCEPT ![p] = @ + 1]
  /\ \/ LET response == GetIPSetResponse
            currentAddresses == currentAddressesOf(p, response)
        IN /\ UNCHANGED faultsLeft
           /\ ipSetResponse' = [ipSetResponse EXCEPT ![p] = response]
           /\ lastRead' = [lastRead EXCEPT ![p] =
                [attempt |-> attempt[p], Addresses |-> response.Addresses,
                 LockToken |-> response.LockToken]]
           /\ IF notInSet(currentAddresses, ipAddress[p])
                THEN Return(p) /\ UNCHANGED command
                ELSE /\ command' = [command EXCEPT ![p] =
                          UpdateIPSetCommand(
                            revokeAddresses(currentAddresses, ipAddress[p]), response)]
                     /\ Await(p, "update")
     \/ \E e \in OtherErrors :
           /\ Fault
           /\ removeIPFromIPSet_catch(p, e)
           /\ UNCHANGED <<ipSetResponse, lastRead, command>>
  /\ UNCHANGED <<storeVars, fn, ipAddress, attempt, savedState, callsLeft,
                 writes, sends, conflicts, saves, prev, runVars>>

removeIPFromIPSet_update(p) ==
  /\ pc[p] = "update" /\ fn[p] = "removeIPFromIPSet"
  /\ writes' = [writes EXCEPT ![p] = @ + 1]
  /\ \/ /\ TokenIsCurrent(command[p])
        /\ StoreUpdate(command[p])
        /\ Return(p)
        /\ UNCHANGED <<conflicts, faultsLeft>>
     \/ /\ ~TokenIsCurrent(command[p])
        /\ conflicts' = [conflicts EXCEPT ![p] = @ + 1]
        /\ removeIPFromIPSet_catch(p, "WAFOptimisticLockException")
        /\ UNCHANGED <<storeVars, faultsLeft>>
     \/ \E e \in OtherErrors :
           /\ Fault
           /\ removeIPFromIPSet_catch(p, e)
           /\ UNCHANGED <<storeVars, conflicts>>
  /\ UNCHANGED <<fn, ipAddress, attempt, ipSetResponse, command,
                 savedState, callsLeft, reads, sends, saves, lastRead, prev, runVars>>

\* Mutant: the loop makes one attempt more (attempt <= maxRetries).
removeIPFromIPSet_retry_oneMore(p) ==
  /\ pc[p] = "sleep" /\ fn[p] = "removeIPFromIPSet"
  /\ attempt' = [attempt EXCEPT ![p] = @ + 1]
  /\ IF attempt[p] + 1 <= maxRetries
       THEN Await(p, "get")
       ELSE Return(p)
  /\ UNCHANGED <<storeVars, faultsLeft, fn, ipAddress, ipSetResponse,
                 command, savedState, callsLeft, reads, writes, sends, conflicts,
                 saves, lastRead, prev, runVars>>

\* The sleep is over: attempt++; attempt < maxRetries, else the function ends.
removeIPFromIPSet_retry(p) ==
  /\ pc[p] = "sleep" /\ fn[p] = "removeIPFromIPSet"
  /\ attempt' = [attempt EXCEPT ![p] = @ + 1]
  /\ IF attempt[p] + 1 < maxRetries
       THEN Await(p, "get")
       ELSE Return(p)
  /\ UNCHANGED <<storeVars, faultsLeft, fn, ipAddress, ipSetResponse,
                 command, savedState, callsLeft, reads, writes, sends, conflicts,
                 saves, lastRead, prev, runVars>>

\* ---------------------------------- addIPToSecurityGroup (index.js)

\* Mutant: a duplicate rule is retried like any other error.
addIPToSecurityGroup_catch_noDuplicate(p, e) ==
  IF attempt[p] = sgMaxRetries - 1
    THEN Throw(p, e)
    ELSE Sleep(p, plainDelay(attempt[p]))

\* Mutant: the error of the last attempt is swallowed.
addIPToSecurityGroup_catch_swallow(p, e) ==
  IF e = "InvalidPermission.Duplicate"
    THEN Return(p)
    ELSE IF attempt[p] = sgMaxRetries - 1
           THEN Return(p)
           ELSE Sleep(p, plainDelay(attempt[p]))

\* catch (error) of addIPToSecurityGroup
addIPToSecurityGroup_catch(p, e) ==
  IF e = "InvalidPermission.Duplicate"
    THEN Return(p)
    ELSE IF attempt[p] = sgMaxRetries - 1
           THEN Throw(p, e)
           ELSE Sleep(p, plainDelay(attempt[p]))

\* Mutant: the address is saved as given, not as sent.
addIPToSecurityGroup_saveState_asGiven(p, entry) ==
  /\ savedState' = [savedState EXCEPT ![p] =
       [@ EXCEPT !["sg-runner-ip"] = ipAddress[p],
                 !["sg-group-id"] = currentCall(p).groupId,
                 !["sg-description"] = currentCall(p).description,
                 !["sg-aws-region"] = currentCall(p).region]]
  /\ saves' = [saves EXCEPT ![p] = TRUE]

\* core.saveState(...) x4 after the accepted authorize
addIPToSecurityGroup_saveState(p, entry) ==
  /\ savedState' = [savedState EXCEPT ![p] =
       [@ EXCEPT !["sg-runner-ip"] = entry,
                 !["sg-group-id"] = currentCall(p).groupId,
                 !["sg-description"] = currentCall(p).description,
                 !["sg-aws-region"] = currentCall(p).region]]
  /\ saves' = [saves EXCEPT ![p] = TRUE]

\* AuthorizeSecurityGroupIngress is answered.
addIPToSecurityGroup_send(p) ==
  /\ pc[p] = "send" /\ fn[p] = "addIPToSecurityGroup"
  /\ sends' = [sends EXCEPT ![p] = @ + 1]
  /\ \/ /\ command[p].CidrIp \notin sgRules
        /\ sgRules' = sgRules \cup {command[p].CidrIp}
        /\ addIPToSecurityGroup_saveState(p, ipWithCidr(ipAddress[p]))
        /\ Return(p)
        /\ UNCHANGED faultsLeft
     \/ /\ command[p].CidrIp \in sgRules
        /\ addIPToSecurityGroup_catch(p, "InvalidPermission.Duplicate")
        /\ UNCHANGED <<sgRules, savedState, saves, faultsLeft>>
     \/ \E e \in OtherErrors :
           /\ Fault
           /\ addIPToSecurityGroup_catch(p, e)
           /\ UNCHANGED <<sgRules, savedState, saves>>
  /\ UNCHANGED <<addresses, lockToken, extLeft, initial, initialRules, fn,
                 ipAddress, attempt,
                 ipSetResponse, command, callsLeft, reads, writes, conflicts,
                 lastRead, prev, runVars>>

\* The sleep is over: attempt++; attempt < maxRetries; the command is built
\* and sent again.
addIPToSecurityGroup_retry(p) ==
  /\ pc[p] = "sleep" /\ fn[p] = "addIPToSecurityGroup"
  /\ attempt' = [attempt EXCEPT ![p] = @ + 1]
  /\ IF attempt[p] + 1 < sgMaxRetries
       THEN /\ Await(p, "send")
            /\ command' = [command EXCEPT ![p] =
                 IngressCommand(ipWithCidr(ipAddress[p]), currentCall(p).description)]
       ELSE Return(p) /\ UNCHANGED command
  /\ UNCHANGED <<storeVars, faultsLeft, fn, ipAddress, ipSetResponse,
                 savedState, callsLeft, reads, writes, sends, conflicts, saves,
                 lastRead, prev, runVars>>

\* ------------------------------ removeIPFromSecurityGroup (cleanup.js)

\* Mutant: as in addIPToSecurityGroup, the error of the last attempt is rethrown.
removeIPFromSecurityGroup_catch_rethrow(p, e) ==
  IF e = "InvalidPermission.NotFound"
    THEN Return(p)
    ELSE IF attempt[p] = sgMaxRetries - 1
           THEN Throw(p, e)
           ELSE Sleep(p, plainDelay(attempt[p]))

\* catch (error) of removeIPFromSecurityGroup
removeIPFromSecurityGroup_catch(p, e) ==
  IF e = "InvalidPermission.NotFound"
    THEN Return(p)
    ELSE IF attempt[p] = sgMaxRetries - 1
           THEN Return(p)
           ELSE Sleep(p, plainDelay(attempt[p]))

\* RevokeSecurityGroupIngress is answered.
removeIPFromSecurityGroup_send(p) ==
  /\ pc[p] = "send" /\ fn[p] = "removeIPFromSecurityGroup"
  /\ sends' = [sends EXCEPT ![p] = @ + 1]
  /\ \/ /\ command[p].CidrIp \in sgRules
        /\ sgRules' = sgRules \ {command[p].CidrIp}
        /\ Return(p)
        /\ UNCHANGED faultsLeft
     \/ /\ command[p].CidrIp \notin sgRules
        /\ removeIPFromSecurityGroup_catch(p, "InvalidPermission.NotFound")
        /\ UNCHANGED <<sgRules, faultsLeft>>
     \/ \E e \in OtherErrors :
           /\ Fault
           /\ removeIPFromSecurityGroup_catch(p, e)
           /\ UNCHANGED sgRules
  /\ UNCHANGED <<addresses, lockToken, extLeft, initial, initialRules, fn,
                 ipAddress, attempt,
                 ipSetResponse, command, savedState, callsLeft, reads, writes,
                 conflicts, saves, lastRead, prev, runVars>>

removeIPFromSecurityGroup_retry(p) ==
  /\ pc[p] = "sleep" /\ fn[p] = "removeIPFromSecurityGroup"
  /\ attempt' = [attempt EXCEPT ![p] = @ + 1]
  /\ IF attempt[p] + 1 < sgMaxRetries
       THEN /\ Await(p, "send")
            /\ command' = [command EXCEPT ![p] =
                 IngressCommand(ipAddress[p], currentCall(p).description)]
       ELSE Return(p) /\ UNCHANGED command
  /\ UNCHANGED <<storeVars, faultsLeft, fn, ipAddress, ipSetResponse,
                 savedState, callsLeft, reads, writes, sends, conflicts, saves,
                 lastRead, prev, runVars>>

\* --------------------------------------- getPublicIP, main (index.js)

\* response.data.trim()
RECURSIVE trimStart(_)
trimStart(s) ==
  IF s # <<>> /\ Head(s) \in Whitespace THEN trimStart(Tail(s)) ELSE s

RECURSIVE trimEnd(_)
trimEnd(s) ==
  IF s # <<>> /\ s[Len(s)] \in Whitespace
    THEN trimEnd(SubSeq(s, 1, Len(s) - 1)) ELSE s

\* Mutant: the answer is used as received.
trim_asGiven(s) == s

trim(s) == trimEnd(trimStart(s))

\* A JavaScript string is truthy unless it is empty.
Truthy(s) == s # <<>>

\* Mutant: one of id and name is enough.
hasWafConfig_either(c) == Truthy(c.id) \/ Truthy(c.name)

\* const hasWafConfig = id && name
hasWafConfig(c) == Truthy(c.id) /\ Truthy(c.name)

\* const hasSecurityGroupConfig = securityGroupId
hasSecurityGroupConfig(c) == Truthy(c.securityGroupId)

\* `Invalid scope: ${scope}. Must be CLOUDFRONT or REGIONAL`
InvalidScopeError(scope) ==
  <<"Invalid scope: ">> \o scope \o <<". Must be CLOUDFRONT or REGIONAL">>

\* Mutant: before the run is marked failed, the saved state is dropped.
main_catch_rollback(p, message) ==
  /\ failed' = [failed EXCEPT ![p] = <<"Action failed: ">> \o message]
  /\ phase' = [phase EXCEPT ![p] = "ended"]
  /\ savedState' = [savedState EXCEPT ![p] = EmptyState]
  /\ UNCHANGED <<storeVars, faultsLeft, callVars, callsLeft,
                 publicIP, answer, contacted, outputs, calls>>

\* catch (error) of main(): core.setFailed(`Action failed: ${error.message}`)
main_catch(p, message) ==
  /\ failed' = [failed EXCEPT ![p] = <<"Action failed: ">> \o message]
  /\ phase' = [phase EXCEPT ![p] = "ended"]
  /\ UNCHANGED <<storeVars, faultsLeft, callVars, callsLeft, savedState,
                 publicIP, answer, contacted, outputs, calls>>

\* core.setOutput('ip-address', publicIP); core.setOutput('status', 'success')
main_setOutput(p) ==
  /\ outputs' = [outputs EXCEPT ![p] =
                   [ipAddress |-> publicIP[p], status |-> <<"success">>]]
  /\ phase' = [phase EXCEPT ![p] = "ended"]
  /\ UNCHANGED <<storeVars, faultsLeft, callVars, callsLeft, savedState,
                 publicIP, answer, contacted, failed, calls>>

\* await addIPToIPSet(...) / await addIPToSecurityGroup(...) in main()
main_grant(p, ph, call) ==
  /\ Invoke(p, call)
  /\ phase' = [phase EXCEPT ![p] = ph]
  /\ UNCHANGED <<callsLeft, contacted, failed, outputs>>

\* main() after const publicIP = await getPublicIP(): the first grant starts.
main_resolved(p, ip) ==
  LET c == config[p]
  IN /\ publicIP' = [publicIP EXCEPT ![p] = ip]
     /\ IF hasWafConfig(c)
          THEN main_grant(p, "waf",
                 IPSetCall("addIPToIPSet", c.region, c.id, c.name, c.scope, ip))
          ELSE main_grant(p, "sg",
                 SecurityGroupCall("addIPToSecurityGroup", c.region,
                                   c.securityGroupId, ip, c.securityGroupDescription))

\* main() reads and validates its inputs and asks the first address service.
main_inputs(p) ==
  /\ phase[p] = "start"
  /\ \E c \in Configs :
        /\ config' = [config EXCEPT ![p] = c]
        /\ IF ~hasWafConfig(c) /\ ~hasSecurityGroupConfig(c)
             THEN main_catch(p, NoTargetError)
             ELSE IF hasWafConfig(c) /\ c.scope \notin Scopes
                    THEN main_catch(p, InvalidScopeError(c.scope))
                    ELSE /\ phase' = [phase EXCEPT ![p] = "primary"]
                         /\ contacted' = [contacted EXCEPT ![p] = <<PrimaryUrl>>]
                         /\ UNCHANGED <<storeVars, faultsLeft, callVars, callsLeft,
                                        savedState, publicIP, answer, failed,
                                        outputs, calls>>

\* The first address service answers or fails.
getPublicIP_primary(p) ==
  /\ phase[p] = "primary"
  /\ \/ \E data \in PrimaryData :
          /\ answer' = [answer EXCEPT ![p] = [url |-> PrimaryUrl, data |-> data]]
          /\ main_resolved(p, trim(data))
          /\ UNCHANGED config
     \/ \E m \in PrimaryErrors :
          /\ phase' = [phase EXCEPT ![p] = "fallback"]
          /\ contacted' = [contacted EXCEPT ![p] = Append(@, FallbackUrl)]
          /\ UNCHANGED <<storeVars, faultsLeft, callVars, callsLeft, savedState,
                         config, publicIP, answer, failed, outputs, calls>>

\* Mutant: main() goes on without an address.
getPublicIP_catch_goOn(p, message) ==
  main_resolved(p, <<>>) /\ UNCHANGED answer

\* catch (fallbackError) of getPublicIP: the Error thrown reaches main()'s catch.
getPublicIP_catch(p, message) ==
  main_catch(p, <<"Failed to get public IP: ">> \o message)

\* The second address service answers or fails.
getPublicIP_fallback(p) ==
  /\ phase[p] = "fallback"
  /\ \/ \E data \in FallbackData :
          /\ answer' = [answer EXCEPT ![p] = [url |-> FallbackUrl, data |-> data]]
          /\ main_resolved(p, trim(data))
     \/ \E m \in FallbackErrors : getPublicIP_catch(p, m)
  /\ UNCHANGED config

\* Mutant: a failed IPSet grant does not stop main().
main_afterIPSet_goOn(p) ==
  /\ phase[p] = "waf" /\ pc[p] = "idle"
  /\ LET c == config[p]
     IN IF hasSecurityGroupConfig(c)
          THEN /\ main_grant(p, "sg",
                    SecurityGroupCall("addIPToSecurityGroup", c.region,
                      c.securityGroupId, publicIP[p], c.securityGroupDescription))
               /\ UNCHANGED <<publicIP, answer>>
          ELSE IF outcome[p] = "threw"
                 THEN main_catch(p, <<error[p]>>)
                 ELSE main_setOutput(p)
  /\ UNCHANGED config

\* await addIPToIPSet(...) has ended.
main_afterIPSet(p) ==
  /\ phase[p] = "waf" /\ pc[p] = "idle"
  /\ LET c == config[p]
     IN IF outcome[p] = "threw"
          THEN main_catch(p, <<error[p]>>)
          ELSE IF hasSecurityGroupConfig(c)
                 THEN /\ main_grant(p, "sg",
                           SecurityGroupCall("addIPToSecurityGroup", c.region,
                             c.securityGroupId, publicIP[p], c.securityGroupDescription))
                      /\ UNCHANGED <<publicIP, answer>>
                 ELSE main_setOutput(p)
  /\ UNCHANGED config

\* await addIPToSecurityGroup(...) has ended.
main_afterSecurityGroup(p) ==
  /\ phase[p] = "sg" /\ pc[p] = "idle"
  /\ IF outcome[p] = "threw"
       THEN main_catch(p, <<error[p]>>)
       ELSE main_setOutput(p)
  /\ UNCHANGED config

\* ------------------------------------------------ cleanup (cleanup.js)

\* Mutant: the saved address alone decides.
hasWafState_ipOnly(state) == Truthy(state["runner-ip"])

\* const hasWafState = runnerIP && ipsetId && ipsetName && ipsetScope && awsRegion
hasWafState(state) ==
  /\ Truthy(state["runner-ip"]) /\ Truthy(state["ipset-id"])
  /\ Truthy(state["ipset-name"]) /\ Truthy(state["ipset-scope"])
  /\ Truthy(state["aws-region"])

\* const hasSecurityGroupState = sgRunnerIP && sgGroupId && sgAwsRegion
hasSecurityGroupState(state) ==
  /\ Truthy(state["sg-runner-ip"]) /\ Truthy(state["sg-group-id"])
  /\ Truthy(state["sg-aws-region"])

\* Mutant: the end of cleanup() reports a status.
cleanup_done_status(p) ==
  /\ phase' = [phase EXCEPT ![p] = "done"]
  /\ outputs' = [outputs EXCEPT ![p] = [@ EXCEPT !.status = <<"cleaned">>]]
  /\ UNCHANGED <<storeVars, faultsLeft, callVars, callsLeft, savedState,
                 config, publicIP, answer, contacted, failed, calls>>

\* cleanup() ends: nothing to do, or all cleanup operations completed.
cleanup_done(p) ==
  /\ phase' = [phase EXCEPT ![p] = "done"]
  /\ UNCHANGED <<storeVars, faultsLeft, callVars, callsLeft, savedState,
                 config, publicIP, answer, contacted, failed, outputs, calls>>

\* catch (error) of cleanup(): core.warning(`Cleanup failed: ${error.message}`)
cleanup_catch(p, message) ==
  /\ phase' = [phase EXCEPT ![p] = "done"]
  /\ UNCHANGED <<storeVars, faultsLeft, callVars, callsLeft, savedState,
                 config, publicIP, answer, contacted, failed, outputs, calls>>

\* await removeIPFromIPSet(...) / await removeIPFromSecurityGroup(...)
cleanup_revoke(p, ph, call) ==
  /\ Invoke(p, call)
  /\ phase' = [phase EXCEPT ![p] = ph]
  /\ UNCHANGED <<callsLeft, config, publicIP, answer, contacted, failed, outputs>>

\* Mutant: the id and the name are passed in each other's place.
cleanup_IPSetCall_swapped(state) ==
  IPSetCall("removeIPFromIPSet", state["aws-region"], state["ipset-name"],
            state["ipset-id"], state["ipset-scope"], state["runner-ip"])

\* removeIPFromIPSet(createWAFClient(awsRegion), ipsetId, ipsetName,
\* ipsetScope, runnerIP) with what core.getState returns
cleanup_IPSetCall(state) ==
  IPSetCall("removeIPFromIPSet", state["aws-region"], state["ipset-id"],
            state["ipset-name"], state["ipset-scope"], state["runner-ip"])

\* removeIPFromSecurityGroup(createEC2Client(sgAwsRegion), sgGroupId,
\* sgRunnerIP, sgDescription)
cleanup_SecurityGroupCall(state) ==
  SecurityGroupCall("removeIPFromSecurityGroup", state["sg-aws-region"],
                    state["sg-group-id"], state["sg-runner-ip"],
                    state["sg-description"])

\* The post step: cleanup() reads the saved state and starts the first revoke.
cleanup(p) ==
  /\ phase[p] = "ended"
  /\ LET state == savedState[p]
     IN IF ~hasWafState(state) /\ ~hasSecurityGroupState(state)
          THEN cleanup_done(p)
          ELSE IF hasWafState(state)
                 THEN cleanup_revoke(p, "post-waf", cleanup_IPSetCall(state))
                 ELSE cleanup_revoke(p, "post-sg", cleanup_SecurityGroupCall(state))

\* Mutant: the security group is cleaned up only if the IPSet revoke did not
\* run out of attempts on lock conflicts.
cleanup_afterIPSet_unlessExhausted(p) ==
  /\ phase[p] = "post-waf" /\ pc[p] = "idle"
  /\ LET state == savedState[p]
     IN IF outcome[p] = "threw"
          THEN cleanup_catch(p, <<error[p]>>)
          ELSE IF hasSecurityGroupState(state) /\ conflicts[p] < maxRetries
                 THEN cleanup_revoke(p, "post-sg", cleanup_SecurityGroupCall(state))
                 ELSE cleanup_done(p)

\* await removeIPFromIPSet(...) has ended.
cleanup_afterIPSet(p) ==
  /\ phase[p] = "post-waf" /\ pc[p] = "idle"
  /\ LET state == savedState[p]
     IN IF outcome[p] = "threw"
          THEN cleanup_catch(p, <<error[p]>>)
          ELSE IF hasSecurityGroupState(state)
                 THEN cleanup_revoke(p, "post-sg", cleanup_SecurityGroupCall(state))
                 ELSE cleanup_done(p)

\* await removeIPFromSecurityGroup(...) has ended.
cleanup_afterSecurityGroup(p) ==
  /\ phase[p] = "post-sg" /\ pc[p] = "idle"
  /\ IF outcome[p] = "threw"
       THEN cleanup_catch(p, <<error[p]>>)
       ELSE cleanup_done(p)

\* ------------------------------------------------------ specification

Next ==
  \/ \E p \in Procs, f \in IPSetFns \cup SGFns, ip \in Inputs : Call(p, f, ip)
  \/ \E p \in Procs : addIPToIPSet_get(p)
  \/ \E p \in Procs : addIPToIPSet_update(p)
  \/ \E p \in Procs : addIPToIPSet_retry(p)
  \/ \E p \in Procs : removeIPFromIPSet_get(p)
  \/ \E p \in Procs : removeIPFromIPSet_update(p)
  \/ \E p \in Procs : removeIPFromIPSet_retry(p)
  \/ \E p \in Procs : addIPToSecurityGroup_send(p)
  \/ \E p \in Procs : addIPToSecurityGroup_retry(p)
  \/ \E p \in Procs : removeIPFromSecurityGroup_send(p)
  \/ \E p \in Procs : removeIPFromSecurityGroup_retry(p)
  \/ ExternalUpdate

\* The calls on the IPSet alone.
NextIPSet ==
  \/ \E p \in Procs, f \in IPSetFns, ip \in Inputs : Call(p, f, ip)
  \/ \E p \in Procs : addIPToIPSet_get(p)
  \/ \E p \in Procs : addIPToIPSet_update(p)
  \/ \E p \in Procs : addIPToIPSet_retry(p)
  \/ \E p \in Procs : removeIPFromIPSet_get(p)
  \/ \E p \in Procs : removeIPFromIPSet_update(p)
  \/ \E p \in Procs : removeIPFromIPSet_retry(p)

Spec == Init /\ [][NextIPSet]_vars

\* One process alone makes several calls in a row.
InitSeq ==
  /\ addresses \in InitialAddresses
  /\ initial = addresses
  /\ lockToken = 1
  /\ sgRules \in {{}, {<<"a", "/", "3", "2">>}}
  /\ initialRules = sgRules
  /\ callsLeft = [p \in Procs |-> IF p = 1 THEN SeqCalls ELSE 0]
  /\ extLeft = SeqExternal
  /\ faultsLeft = SeqFaults
  /\ phase = [p \in Procs |-> "off"]
  /\ ProcessInit

SpecSeq == InitSeq /\ [][Next]_vars

\* One call of one process against a store that keeps being updated by
\* others and keeps failing.
InitStorm ==
  /\ addresses \in InitialAddresses
  /\ initial = addresses
  /\ lockToken = 1
  /\ sgRules \in {{}, {<<"a", "/", "3", "2">>}}
  /\ initialRules = sgRules
  /\ callsLeft = [p \in Procs |-> IF p = 1 THEN 1 ELSE 0]
  /\ extLeft = StormExternal
  /\ faultsLeft = StormFaults
  /\ phase = [p \in Procs |-> "off"]
  /\ ProcessInit

SpecStorm == InitStorm /\ [][Next]_vars

\* The same, with every awaited store call and every sleep returning: a step
\* that can be taken is taken.
FairStorm == SpecStorm /\ WF_vars(Next)

\* One run: main(), then the post step cleanup(), against a store that other
\* writers update and that may fail.
NextRun ==
  \/ \E p \in Procs : main_inputs(p)
  \/ \E p \in Procs : getPublicIP_primary(p)
  \/ \E p \in Procs : getPublicIP_fallback(p)
  \/ \E p \in Procs : main_afterIPSet(p)
  \/ \E p \in Procs : main_afterSecurityGroup(p)
  \/ \E p \in Procs : cleanup(p)
  \/ \E p \in Procs : cleanup_afterIPSet(p)
  \/ \E p \in Procs : cleanup_afterSecurityGroup(p)
  \/ \E p \in Procs : addIPToIPSet_get(p)
  \/ \E p \in Procs : addIPToIPSet_update(p)
  \/ \E p \in Procs : addIPToIPSet_retry(p)
  \/ \E p \in Procs : removeIPFromIPSet_get(p)
  \/ \E p \in Procs : removeIPFromIPSet_update(p)
  \/ \E p \in Procs : removeIPFromIPSet_retry(p)
  \/ \E p \in Procs : addIPToSecurityGroup_send(p)
  \/ \E p \in Procs : addIPToSecurityGroup_retry(p)
  \/ \E p \in Procs : removeIPFromSecurityGroup_send(p)
  \/ \E p \in Procs : removeIPFromSecurityGroup_retry(p)
  \/ ExternalUpdate

InitRun ==
  /\ addresses \in InitialAddresses
  /\ initial = addresses
  /\ lockToken = 1
  /\ sgRules \in {{}, {<<"a", "/", "3", "2">>}}
  /\ initialRules = sgRules
  /\ callsLeft = [p \in Procs |-> 0]
  /\ extLeft = RunExternal
  /\ faultsLeft = RunFaults
  /\ phase = [p \in Procs |-> IF p = 1 THEN "start" ELSE "off"]
  /\ ProcessInit

SpecRun == InitRun /\ [][NextRun]_vars

\* What main() has saved when both grants, one of them or none succeeded for
\* the address a.
SavedWaf ==
  [EmptyState EXCEPT !["runner-ip"] = ipWithCidr(<<"a">>),
                     !["ipset-id"] = IPSetId,
                     !["ipset-name"] = IPSetName,
                     !["ipset-scope"] = IPSetScope,
                     !["aws-region"] = Region]
SavedSecurityGroup ==
  [EmptyState EXCEPT !["sg-runner-ip"] = ipWithCidr(<<"a">>),
                     !["sg-group-id"] = GroupId,
                     !["sg-description"] = Description,
                     !["sg-aws-region"] = Region]
SavedBoth ==
  [k \in StateKeys |->
     IF SavedWaf[k] # <<>> THEN SavedWaf[k] ELSE SavedSecurityGroup[k]]

\* What core.getState returns when a field was saved empty or is missing:
\* the region of a client, the group id, the description input.
Merged(waf, sg) ==
  [k \in StateKeys |-> IF waf[k] # <<>> THEN waf[k] ELSE sg[k]]
SavedWafNoRegion == [SavedWaf EXCEPT !["aws-region"] = <<>>]
SavedSecurityGroupNoDescription ==
  [SavedSecurityGroup EXCEPT !["sg-description"] = <<>>]
SavedSecurityGroupNoGroup == [SavedSecurityGroup EXCEPT !["sg-group-id"] = <<>>]
SavedStates ==
  { EmptyState, SavedWaf, SavedSecurityGroup, SavedBoth,
    SavedWafNoRegion, SavedSecurityGroupNoDescription, SavedSecurityGroupNoGroup,
    Merged(SavedWafNoRegion, SavedSecurityGroupNoDescription),
    Merged(SavedWaf, SavedSecurityGroupNoGroup),
    Merged(SavedWafNoRegion, SavedSecurityGroupNoGroup) }

\* The post step alone: cleanup() starts from what main() saved, against a
\* store that other writers keep updating and that keeps failing.
NextCleanup ==
  \/ \E p \in Procs : cleanup(p)
  \/ \E p \in Procs : cleanup_afterIPSet(p)
  \/ \E p \in Procs : cleanup_afterSecurityGroup(p)
  \/ \E p \in Procs : removeIPFromIPSet_get(p)
  \/ \E p \in Procs : removeIPFromIPSet_update(p)
  \/ \E p \in Procs : removeIPFromIPSet_retry(p)
  \/ \E p \in Procs : removeIPFromSecurityGroup_send(p)
  \/ \E p \in Procs : removeIPFromSecurityGroup_retry(p)
  \/ ExternalUpdate

InitCleanup ==
  /\ addresses \in InitialAddresses
  /\ initial = addresses
  /\ lockToken = 1
  /\ sgRules \in {{}, {<<"a", "/", "3", "2">>}}
  /\ initialRules = sgRules
  /\ callsLeft = [p \in Procs |-> 0]
  /\ extLeft = CleanupExternal
  /\ faultsLeft = CleanupFaults
  /\ phase = [p \in Procs |-> IF p = 1 THEN "ended" ELSE "off"]
  /\ pc = [p \in Procs |-> "idle"]
  /\ fn = [p \in Procs |-> "none"]
  /\ ipAddress = [p \in Procs |-> <<>>]
  /\ attempt = [p \in Procs |-> 0]
  /\ ipSetResponse = [p \in Procs |-> NoResponse]
  /\ command = [p \in Procs |-> NoCommand]
  /\ delay = [p \in Procs |-> 0]
  /\ outcome = [p \in Procs |-> "none"]
  /\ error = [p \in Procs |-> NoError]
  /\ \E state \in SavedStates :
        savedState = [p \in Procs |-> IF p = 1 THEN state ELSE EmptyState]
  /\ reads = [p \in Procs |-> 0]
  /\ writes = [p \in Procs |-> 0]
  /\ sends = [p \in Procs |-> 0]
  /\ sleeps = [p \in Procs |-> 0]
  /\ conflicts = [p \in Procs |-> 0]
  /\ saves = [p \in Procs |-> FALSE]
  /\ lastRead = [p \in Procs |-> NoRead]
  /\ prev = [p \in Procs |-> NoPrev]
  /\ config = [p \in Procs |-> NoConfig]
  /\ publicIP = [p \in Procs |-> <<>>]
  /\ answer = [p \in Procs |-> NoAnswer]
  /\ contacted = [p \in Procs |-> <<>>]
  /\ failed = [p \in Procs |-> NoFailure]
  /\ outputs = [p \in Procs |-> NoOutputs]
  /\ calls = [p \in Procs |-> <<>>]

SpecCleanup == InitCleanup /\ [][NextCleanup]_vars

\* The inputs of a run that manages the IPSet only.
WafOnlyConfig ==
  [id |-> IPSetId, name |-> IPSetName, scope |-> <<"CLOUDFRONT">>, region |-> Region,
   securityGroupId |-> <<>>, securityGroupDescription |-> Description]

\* Several runs at once, each of main() and then cleanup(), on the same
\* IPSet: every process has read the inputs WafOnlyConfig and is asking the
\* first address service.
NextPaired ==
  \/ \E p \in Procs : getPublicIP_primary(p)
  \/ \E p \in Procs : getPublicIP_fallback(p)
  \/ \E p \in Procs : main_afterIPSet(p)
  \/ \E p \in Procs : cleanup(p)
  \/ \E p \in Procs : cleanup_afterIPSet(p)
  \/ \E p \in Procs : addIPToIPSet_get(p)
  \/ \E p \in Procs : addIPToIPSet_update(p)
  \/ \E p \in Procs : addIPToIPSet_retry(p)
  \/ \E p \in Procs : removeIPFromIPSet_get(p)
  \/ \E p \in Procs : removeIPFromIPSet_update(p)
  \/ \E p \in Procs : removeIPFromIPSet_retry(p)

InitPaired ==
  /\ addresses \in InitialAddresses
  /\ initial = addresses
  /\ lockToken = 1
  /\ sgRules = {}
  /\ initialRules = sgRules
  /\ callsLeft = [p \in Procs |-> 0]
  /\ extLeft = 0
  /\ faultsLeft = PairedFaults
  /\ phase = [p \in Procs |-> "primary"]
  /\ pc = [p \in Procs |-> "idle"]
  /\ fn = [p \in Procs |-> "none"]
  /\ ipAddress = [p \in Procs |-> <<>>]
  /\ attempt = [p \in Procs |-> 0]
  /\ ipSetResponse = [p \in Procs |-> NoResponse]
  /\ command = [p \in Procs |-> NoCommand]
  /\ delay = [p \in Procs |-> 0]
  /\ outcome = [p \in Procs |-> "none"]
  /\ error = [p \in Procs |-> NoError]
  /\ savedState = [p \in Procs |-> EmptyState]
  /\ reads = [p \in Procs |-> 0]
  /\ writes = [p \in Procs |-> 0]
  /\ sends = [p \in Procs |-> 0]
  /\ sleeps = [p \in Procs |-> 0]
  /\ conflicts = [p \in Procs |-> 0]
  /\ saves = [p \in Procs |-> FALSE]
  /\ lastRead = [p \in Procs |-> NoRead]
  /\ prev = [p \in Procs |-> NoPrev]
  /\ config = [p \in Procs |-> WafOnlyConfig]
  /\ publicIP = [p \in Procs |-> <<>>]
  /\ answer = [p \in Procs |-> NoAnswer]
  /\ contacted = [p \in Procs |-> <<PrimaryUrl>>]
  /\ failed = [p \in Procs |-> NoFailure]
  /\ outputs = [p \in Procs |-> NoOutputs]
  /\ calls = [p \in Procs |-> <<>>]

SpecPaired == InitPaired /\ [][NextPaired]_vars

\* ================================================================ claims

\* What the claims mean by the entry of an address, by membership and by
\* removal, stated without the model's helpers.
CidrOf(ip) ==
  IF \E i \in 1..Len(ip) : ip[i] = "/" THEN ip ELSE ip \o <<"/", "3", "2">>

InList(list, x) == \E i \in 1..Len(list) : list[i] = x

RECURSIVE Without(_, _)
Without(list, x) ==
  IF list = <<>> THEN <<>>
  ELSE IF Head(list) = x THEN Without(Tail(list), x)
  ELSE <<Head(list)>> \o Without(Tail(list), x)

Occurrences(list, x) == Cardinality({i \in 1..Len(list) : list[i] = x})

\* C1: no lost updates.  Whenever a process's UpdateIPSet is accepted while
\* other processes run addIPToIPSet / removeIPFromIPSet on the same IPSet, the
\* IPSet becomes what it held just before that write plus the writer's own
\* entry at the end (grant) or minus the writer's own entry (revoke): nothing
\* written by another process is dropped.
C1_NoLostUpdate ==
  [][\A p \in Procs :
       (pc[p] = "update" /\ writes'[p] # writes[p] /\ lockToken' # lockToken)
         => IF fn[p] = "addIPToIPSet"
              THEN addresses' = Append(addresses, CidrOf(ipAddress[p]))
              ELSE addresses' = Without(addresses, ipAddress[p])]_vars

\* A grant that lost a race to another process's accepted grant has retried
\* and written, and both entries are in the IPSet.
C1_Witness ==
  \E p, q \in Procs :
    /\ p # q
    /\ fn[p] = "addIPToIPSet" /\ fn[q] = "addIPToIPSet"
    /\ saves[p] /\ saves[q] /\ conflicts[p] = 1
    /\ CidrOf(ipAddress[p]) # CidrOf(ipAddress[q])
    /\ InList(addresses, CidrOf(ipAddress[p]))
    /\ InList(addresses, CidrOf(ipAddress[q]))

\* C2: every UpdateIPSet command waiting for the store's answer carries the
\* LockToken and the address list that the store returned to the GetIPSet of
\* the same attempt; each attempt that sends an update has made its own read.
C2_WriteFromOwnRead ==
  \A p \in Procs :
    pc[p] = "update" =>
      /\ lastRead[p].attempt = attempt[p]
      /\ reads[p] = attempt[p] + 1
      /\ command[p].LockToken = lastRead[p].LockToken
      /\ command[p].Addresses =
           IF fn[p] = "addIPToIPSet"
             THEN Append(lastRead[p].Addresses, CidrOf(ipAddress[p]))
             ELSE Without(lastRead[p].Addresses, ipAddress[p])

\* After a stale-token rejection, a later attempt is sending an update built
\* on a newer token.
C2_Witness ==
  \E p \in Procs :
    /\ pc[p] = "update" /\ attempt[p] = 2 /\ conflicts[p] = 2
    /\ command[p].LockToken = 3

\* C3: when addIPToIPSet has returned for an entry and is called again with
\* the same entry, the second call sends no UpdateIPSet, and once it has
\* returned it has sent exactly one GetIPSet and the IPSet holds the
\* normalized entry exactly once.
C3_GrantTwice ==
  \A p \in Procs :
    ( /\ fn[p] = "addIPToIPSet"
      /\ prev[p].fn = "addIPToIPSet" /\ prev[p].outcome = "returned"
      /\ CidrOf(prev[p].ipAddress) = CidrOf(ipAddress[p]) )
    => /\ writes[p] = 0
       /\ outcome[p] = "returned" =>
            /\ reads[p] = 1
            /\ Occurrences(addresses, CidrOf(ipAddress[p])) = 1

\* The first call wrote the entry of a bare address and the second call, with
\* the same address, has returned.
C3_Witness ==
  \E p \in Procs :
    /\ fn[p] = "addIPToIPSet" /\ prev[p].fn = "addIPToIPSet"
    /\ prev[p].outcome = "returned" /\ prev[p].ipAddress = <<"a">>
    /\ ipAddress[p] = <<"a">> /\ outcome[p] = "returned"
    /\ savedState[p]["runner-ip"] = <<"a", "/", "3", "2">>
    /\ reads[p] = 1 /\ writes[p] = 0

\* C4: when the GetIPSet of removeIPFromIPSet is answered with a list that
\* does not hold the entry, the call returns at once without error, no
\* UpdateIPSet is sent, and the IPSet and its LockToken are unchanged.
C4_RevokeAbsent ==
  [][\A p \in Procs :
       ( /\ pc[p] = "get" /\ fn[p] = "removeIPFromIPSet"
         /\ reads'[p] # reads[p] /\ faultsLeft' = faultsLeft
         /\ ~InList(addresses, ipAddress[p]) )
       => /\ pc'[p] = "idle" /\ outcome'[p] = "returned" /\ error'[p] = NoError
          /\ writes'[p] = writes[p]
          /\ addresses' = addresses /\ lockToken' = lockToken]_vars

\* A revoke of an absent entry has returned after one read and no write.
C4_Witness ==
  \E p \in Procs :
    /\ fn[p] = "removeIPFromIPSet" /\ outcome[p] = "returned"
    /\ reads[p] = 1 /\ writes[p] = 0 /\ lockToken = 1
    /\ ~InList(addresses, ipAddress[p])

\* C5: in both grants the entry looked up, sent to the store and saved for
\* the cleanup is the address with /32 appended when it holds no '/', and the
\* address itself when it holds one.
C5_Normalized ==
  \A p \in Procs :
    /\ (fn[p] = "addIPToIPSet" /\ pc[p] = "update") =>
          /\ ~InList(lastRead[p].Addresses, CidrOf(ipAddress[p]))
          /\ command[p].Addresses =
               Append(lastRead[p].Addresses, CidrOf(ipAddress[p]))
    /\ (fn[p] = "addIPToIPSet" /\ outcome[p] = "returned" /\ ~saves[p]) =>
          InList(lastRead[p].Addresses, CidrOf(ipAddress[p]))
    /\ (fn[p] = "addIPToIPSet" /\ saves[p]) =>
          savedState[p]["runner-ip"] = CidrOf(ipAddress[p])
    /\ (fn[p] = "addIPToSecurityGroup" /\ pc[p] = "send") =>
          command[p].CidrIp = CidrOf(ipAddress[p])
    /\ (fn[p] = "addIPToSecurityGroup" /\ saves[p]) =>
          /\ savedState[p]["sg-runner-ip"] = CidrOf(ipAddress[p])
          /\ CidrOf(ipAddress[p]) \in sgRules

\* A bare address was granted on the IPSet: its /32 entry is stored and saved.
C5_Witness ==
  \E p \in Procs :
    /\ fn[p] = "addIPToIPSet" /\ ipAddress[p] = <<"a">> /\ saves[p]
    /\ InList(addresses, <<"a", "/", "3", "2">>)
    /\ savedState[p]["runner-ip"] = <<"a", "/", "3", "2">>

\* C6: when the update of addIPToIPSet is rejected as stale three times and
\* then accepted, the call has returned after exactly 4 reads and 4 updates,
\* and the IPSet holds the list returned by the 4th read followed by the new
\* entry, which occurs exactly once.
C6_ConflictRetry ==
  \A p \in Procs :
    (fn[p] = "addIPToIPSet" /\ conflicts[p] = 3 /\ saves[p]) =>
      /\ outcome[p] = "returned" /\ error[p] = NoError
      /\ attempt[p] = 3 /\ reads[p] = 4 /\ writes[p] = 4
      /\ lastRead[p].attempt = 3
      /\ addresses = Append(lastRead[p].Addresses, CidrOf(ipAddress[p]))
      /\ Occurrences(addresses, CidrOf(ipAddress[p])) = 1

\* A grant was accepted on its 4th attempt, after three rejections during
\* which the list changed.
C6_Witness ==
  \E p \in Procs :
    /\ fn[p] = "addIPToIPSet" /\ conflicts[p] = 3 /\ saves[p]
    /\ outcome[p] = "returned" /\ writes[p] = 4
    /\ Len(addresses) = 2

\* C7: addIPToIPSet throws its lock-conflicts Error exactly when 10 updates
\* in a row were rejected as stale: it has then sent 10 GetIPSet and 10
\* UpdateIPSet and saved no state; that Error is none of the store's errors,
\* and no call sees more than 10 rejections.
C7_GrantExhaustion ==
  /\ LockConflictsError \notin OtherErrors \cup {"WAFOptimisticLockException", NoError}
  /\ \A p \in Procs :
       fn[p] = "addIPToIPSet" =>
         /\ conflicts[p] <= 10
         /\ (outcome[p] = "threw" /\ error[p] = LockConflictsError) =>
               /\ reads[p] = 10 /\ writes[p] = 10 /\ conflicts[p] = 10
               /\ ~saves[p] /\ savedState[p] = EmptyState
         /\ (conflicts[p] = 10 /\ pc[p] = "idle") =>
               /\ outcome[p] = "threw" /\ error[p] = LockConflictsError
         /\ (conflicts[p] = 10 /\ pc[p] # "idle") => pc[p] = "sleep"

\* A grant has failed after ten rejected updates.
C7_Witness ==
  \E p \in Procs :
    /\ fn[p] = "addIPToIPSet" /\ outcome[p] = "threw"
    /\ error[p] = LockConflictsError /\ writes[p] = 10 /\ extLeft = StormExternal - 10

\* C8: removeIPFromIPSet and removeIPFromSecurityGroup never throw, whatever
\* the store answers to their reads and writes: a call of either that has
\* ended has returned.
C8_RevokeNeverRaises ==
  \A p \in Procs :
    fn[p] \in {"removeIPFromIPSet", "removeIPFromSecurityGroup"} =>
      /\ outcome[p] \in {"running", "returned"}
      /\ error[p] = NoError
      /\ pc[p] = "idle" => outcome[p] = "returned"

\* A revoke on the IPSet has returned after all of its ten updates were
\* rejected as stale.
C8_Witness ==
  \E p \in Procs :
    /\ fn[p] = "removeIPFromIPSet" /\ conflicts[p] = 10 /\ writes[p] = 10
    /\ outcome[p] = "returned" /\ InList(addresses, ipAddress[p])

\* C9: when a read or an update of addIPToIPSet fails with an error that is
\* no lock conflict, the call has ended by throwing that error: it slept only
\* after lock conflicts, and the failed call was its last store call (on the
\* first attempt: one read, at most one update, no sleep).
C9_GrantFailsFast ==
  \A p \in Procs :
    (fn[p] = "addIPToIPSet" /\ faultsLeft < StormFaults) =>
      /\ pc[p] = "idle" /\ outcome[p] = "threw" /\ error[p] \in OtherErrors
      /\ faultsLeft = StormFaults - 1
      /\ sleeps[p] = conflicts[p] /\ attempt[p] = conflicts[p]
      /\ reads[p] = attempt[p] + 1
      /\ writes[p] \in {attempt[p], attempt[p] + 1}
      /\ ~saves[p]

\* The update of the first attempt failed: one read, one update, no sleep.
C9_Witness ==
  \E p \in Procs :
    /\ fn[p] = "addIPToIPSet" /\ outcome[p] = "threw" /\ error[p] \in OtherErrors
    /\ attempt[p] = 0 /\ reads[p] = 1 /\ writes[p] = 1 /\ sleeps[p] = 0

\* C10 as stated: a read or update of removeIPFromIPSet that fails with an
\* error that is no lock conflict ends the call after that single failure,
\* with no sleep and no further store call.
C10_RevokeFailsFast ==
  \A p \in Procs :
    (fn[p] = "removeIPFromIPSet" /\ faultsLeft < StormFaults) =>
      /\ pc[p] = "idle" /\ outcome[p] = "returned"
      /\ faultsLeft = StormFaults - 1
      /\ sleeps[p] = conflicts[p]

\* C10 as amended: a read or update of removeIPFromIPSet that fails with an
\* error that is no lock conflict never throws; on the 10th attempt the call
\* returns, on an earlier attempt it sleeps 1000 * 2^attempt ms and then starts
\* the next attempt with a new GetIPSet.
C10_RevokeRetriesErrors ==
  [][\A p \in Procs :
       fn[p] = "removeIPFromIPSet" =>
         /\ ( /\ pc[p] \in {"get", "update"}
              /\ faultsLeft' < faultsLeft
              /\ (reads'[p] # reads[p] \/ writes'[p] # writes[p]) )
            => /\ attempt'[p] = attempt[p]
               /\ IF attempt[p] = 9
                    THEN /\ pc'[p] = "idle" /\ outcome'[p] = "returned"
                         /\ sleeps'[p] = sleeps[p]
                    ELSE /\ pc'[p] = "sleep" /\ outcome'[p] = "running"
                         /\ delay'[p] = 1000 * Pow2(attempt[p])
                         /\ sleeps'[p] = sleeps[p] + 1
         /\ (pc[p] = "sleep" /\ pc'[p] # "sleep" /\ attempt[p] < 9)
            => /\ pc'[p] = "get" /\ attempt'[p] = attempt[p] + 1
               /\ outcome'[p] = "running"]_vars

\* After a failed read and a failed update, each followed by a sleep, the
\* third attempt of a revoke was accepted.
C10_Witness ==
  \E p \in Procs :
    /\ fn[p] = "removeIPFromIPSet" /\ faultsLeft = StormFaults - 2
    /\ conflicts[p] = 0 /\ attempt[p] = 2 /\ sleeps[p] = 2
    /\ reads[p] = 3 /\ writes[p] = 2
    /\ outcome[p] = "returned" /\ ~InList(addresses, ipAddress[p])
    /\ lockToken = 2

\* C11 as stated: the delay slept before attempt k (0-indexed) is in
\* [1000*2^k, 1000*2^k + 1000) ms in addIPToIPSet / removeIPFromIPSet and is
\* exactly 1000*2^k ms in the two security-group functions.
C11_DelayBeforeAttempt ==
  [][\A p \in Procs :
       (pc[p] = "sleep" /\ pc'[p] \in {"get", "send"}) =>
         LET k == attempt'[p]
         IN IF fn[p] \in IPSetFns
              THEN delay[p] >= 1000 * Pow2(k) /\ delay[p] < 1000 * Pow2(k) + 1000
              ELSE delay[p] = 1000 * Pow2(k)]_vars

\* C11 as amended: the delay slept after the failure of attempt k (0-indexed),
\* that is before attempt k + 1, is in [1000*2^k, 1000*2^k + 1000) ms after a
\* lock conflict of addIPToIPSet / removeIPFromIPSet and is exactly 1000*2^k
\* ms in the two security-group functions.
C11_BackoffShape ==
  [][\A p \in Procs :
       /\ (pc[p] # "sleep" /\ pc'[p] = "sleep") =>
            LET k == attempt[p]
            IN /\ attempt'[p] = k
               /\ (fn[p] \in IPSetFns /\ conflicts'[p] # conflicts[p]) =>
                     /\ delay'[p] >= 1000 * Pow2(k)
                     /\ delay'[p] < 1000 * Pow2(k) + 1000
               /\ fn[p] \in SGFns => delay'[p] = 1000 * Pow2(k)
       /\ (pc[p] = "sleep" /\ pc'[p] # "sleep") =>
            /\ attempt'[p] = attempt[p] + 1
            /\ delay[p] >= 1000 * Pow2(attempt[p])
            /\ delay[p] < 1000 * Pow2(attempt[p]) + 1000]_vars

\* After the lock conflict of its second attempt (k = 1) a grant sleeps
\* 2999 ms, the largest delay sampled for that attempt.
C11_Witness ==
  \E p \in Procs :
    /\ fn[p] = "addIPToIPSet" /\ pc[p] = "sleep" /\ attempt[p] = 1
    /\ conflicts[p] = 2 /\ delay[p] = 2999

\* C12: when the store answers InvalidPermission.Duplicate to the authorize
\* of addIPToSecurityGroup (the rule exists), or InvalidPermission.NotFound to
\* the revoke of removeIPFromSecurityGroup (the rule does not exist), on any
\* attempt, the call returns without an error in that step: no sleep starts,
\* no further command is sent and the rules are unchanged.
C12_ShortCircuit ==
  [][\A p \in Procs :
       ( /\ pc[p] = "send" /\ sends'[p] # sends[p] /\ faultsLeft' = faultsLeft
         /\ \/ fn[p] = "addIPToSecurityGroup" /\ command[p].CidrIp \in sgRules
            \/ fn[p] = "removeIPFromSecurityGroup" /\ command[p].CidrIp \notin sgRules )
       => /\ pc'[p] = "idle" /\ outcome'[p] = "returned" /\ error'[p] = NoError
          /\ sleeps'[p] = sleeps[p] /\ sends'[p] = sends[p] + 1
          /\ sgRules' = sgRules]_vars

\* A security-group grant whose first attempt failed was answered Duplicate
\* on its second attempt and has returned.
C12_Witness ==
  \E p \in Procs :
    /\ fn[p] = "addIPToSecurityGroup" /\ outcome[p] = "returned"
    /\ attempt[p] = 1 /\ sends[p] = 2 /\ sleeps[p] = 1 /\ ~saves[p]
    /\ CidrOf(ipAddress[p]) \in sgRules

\* C13: addIPToSecurityGroup sends at most 5 authorize commands; it throws
\* exactly when all 5 failed with an error other than Duplicate, and then the
\* error thrown is the store's error of the 5th attempt, 4 sleeps were slept
\* and no state is saved.
C13_GrantBudget ==
  \A p \in Procs :
    fn[p] = "addIPToSecurityGroup" =>
      /\ sends[p] <= 5
      /\ outcome[p] = "threw" =>
            /\ sends[p] = 5 /\ sleeps[p] = 4 /\ attempt[p] = 4
            /\ error[p] \in OtherErrors
            /\ StormFaults - faultsLeft = 5
            /\ ~saves[p] /\ savedState[p] = EmptyState
      /\ StormFaults - faultsLeft = 5 =>
            pc[p] = "idle" /\ outcome[p] = "threw"
      /\ (StormFaults - faultsLeft < 5 /\ pc[p] = "idle") =>
            outcome[p] = "returned"

\* A security-group grant has thrown after five failed attempts.
C13_Witness ==
  \E p \in Procs :
    /\ fn[p] = "addIPToSecurityGroup" /\ outcome[p] = "threw"
    /\ sends[p] = 5 /\ error[p] \in OtherErrors /\ sgRules = {}

\* C14: removeIPFromSecurityGroup sends at most 5 revoke commands; when all
\* 5 failed with an error other than NotFound the call has returned normally
\* after 4 sleeps, without an error, and sends nothing more.
C14_RevokeBudget ==
  \A p \in Procs :
    fn[p] = "removeIPFromSecurityGroup" =>
      /\ sends[p] <= 5
      /\ StormFaults - faultsLeft <= 5
      /\ StormFaults - faultsLeft = 5 =>
            /\ pc[p] = "idle" /\ outcome[p] = "returned" /\ error[p] = NoError
            /\ sends[p] = 5 /\ sleeps[p] = 4 /\ attempt[p] = 4

\* A security-group revoke has returned after five failed attempts, and the
\* rule is still there.
C14_Witness ==
  \E p \in Procs :
    /\ fn[p] = "removeIPFromSecurityGroup" /\ outcome[p] = "returned"
    /\ sends[p] = 5 /\ faultsLeft = StormFaults - 5
    /\ ipAddress[p] \in sgRules

\* What the claims mean by the record of a grant and by a trimmed answer.
WafRecord(c, ip) ==
  [k \in StateKeys |->
     CASE k = "runner-ip" -> CidrOf(ip)
       [] k = "ipset-id" -> c.id
       [] k = "ipset-name" -> c.name
       [] k = "ipset-scope" -> c.scope
       [] k = "aws-region" -> c.region
       [] OTHER -> <<>>]

SgRecord(c, ip) ==
  [k \in StateKeys |->
     CASE k = "sg-runner-ip" -> CidrOf(ip)
       [] k = "sg-group-id" -> c.securityGroupId
       [] k = "sg-description" -> c.securityGroupDescription
       [] k = "sg-aws-region" -> c.region
       [] OTHER -> <<>>]

WafKeys == {"runner-ip", "ipset-id", "ipset-name", "ipset-scope", "aws-region"}
SgKeys == {"sg-runner-ip", "sg-group-id", "sg-description", "sg-aws-region"}

IsTrimOf(t, s) ==
  \E i \in 1..(Len(s) + 1), j \in 0..Len(s) :
    /\ t = SubSeq(s, i, j)
    /\ \A k \in 1..(i - 1) : s[k] \in {" ", "\n"}
    /\ \A k \in (j + 1)..Len(s) : s[k] \in {" ", "\n"}
    /\ t # <<>> => t[1] \notin {" ", "\n"} /\ t[Len(t)] \notin {" ", "\n"}

\* C15: a grant whose write the store accepts records the CIDR entry of the
\* public address, the identifiers and the region it was called with; the
\* record changes in no other step; and cleanup(), whether main() ended in
\* success or in failure, calls removeIPFromIPSet and then
\* removeIPFromSecurityGroup with exactly the recorded values, for each target
\* that has a record.
C15_CleanupUsesRecord ==
  [][\A p \in Procs :
       LET c == config[p]
           wafWrite == /\ fn[p] = "addIPToIPSet" /\ pc[p] = "update"
                       /\ writes'[p] # writes[p] /\ lockToken' # lockToken
           sgWrite == /\ fn[p] = "addIPToSecurityGroup" /\ pc[p] = "send"
                      /\ sends'[p] # sends[p] /\ sgRules' # sgRules
           wafCall == [fn |-> "removeIPFromIPSet", ipAddress |-> CidrOf(publicIP[p]),
                       id |-> c.id, name |-> c.name, scope |-> c.scope,
                       region |-> c.region, groupId |-> <<>>, description |-> <<>>]
           sgCall == [fn |-> "removeIPFromSecurityGroup",
                      ipAddress |-> CidrOf(publicIP[p]),
                      id |-> <<>>, name |-> <<>>, scope |-> <<>>, region |-> c.region,
                      groupId |-> c.securityGroupId,
                      description |-> c.securityGroupDescription]
           hasWaf == savedState[p]["runner-ip"] # <<>>
           hasSg == savedState[p]["sg-runner-ip"] # <<>>
       IN /\ wafWrite =>
               \A k \in WafKeys : savedState'[p][k] = WafRecord(c, publicIP[p])[k]
          /\ sgWrite =>
               \A k \in SgKeys : savedState'[p][k] = SgRecord(c, publicIP[p])[k]
          /\ savedState'[p] # savedState[p] => wafWrite \/ sgWrite
          /\ (phase[p] = "ended" /\ phase'[p] # "ended") =>
               /\ hasWaf => calls'[p] = Append(calls[p], wafCall)
                             /\ phase'[p] = "post-waf"
               /\ (~hasWaf /\ hasSg) => calls'[p] = Append(calls[p], sgCall)
                                         /\ phase'[p] = "post-sg"
               /\ (~hasWaf /\ ~hasSg) => calls'[p] = calls[p]
          /\ (phase[p] = "post-waf" /\ phase'[p] # "post-waf") =>
               /\ hasSg => calls'[p] = Append(calls[p], sgCall)
                            /\ phase'[p] = "post-sg"
               /\ ~hasSg => calls'[p] = calls[p]]_vars

\* main() failed in the security-group grant after the IPSet grant had
\* written; cleanup() has called removeIPFromIPSet with the recorded entry
\* and the entry is gone.
C15_Witness ==
  \E p \in Procs :
    /\ phase[p] = "done" /\ failed[p] # NoFailure /\ Len(calls[p]) = 3
    /\ calls[p][1].fn = "addIPToIPSet" /\ calls[p][2].fn = "addIPToSecurityGroup"
    /\ calls[p][3].fn = "removeIPFromIPSet"
    /\ calls[p][3].ipAddress = <<"a", "/", "3", "2">>
    /\ calls[p][3].id = IPSetId /\ calls[p][3].region = Region
    /\ ~InList(addresses, <<"a", "/", "3", "2">>)

\* C16 as stated: every grant of main() that has returned, the no-op cases
\* included, has recorded the entry, the identifiers and the region needed
\* to revoke it.
C16_EveryGrantRecords ==
  \A p \in Procs :
    /\ (phase[p] = "waf" /\ pc[p] = "idle" /\ outcome[p] = "returned") =>
          \A k \in WafKeys : savedState[p][k] = WafRecord(config[p], publicIP[p])[k]
    /\ (phase[p] = "sg" /\ pc[p] = "idle" /\ outcome[p] = "returned") =>
          \A k \in SgKeys : savedState[p][k] = SgRecord(config[p], publicIP[p])[k]

\* C16 as amended: a grant that returns has recorded the entry, the
\* identifiers and the region exactly when its write was accepted in that
\* step; a grant that returns because the entry is already in the IPSet, or
\* because the rule is reported as duplicate, records nothing.
C16_OnlyWritesRecord ==
  [][\A p \in Procs :
       ( /\ fn[p] \in {"addIPToIPSet", "addIPToSecurityGroup"}
         /\ pc[p] # "idle" /\ pc'[p] = "idle" /\ outcome'[p] = "returned" )
       => IF fn[p] = "addIPToIPSet"
            THEN IF addresses' # addresses
                   THEN \A k \in WafKeys :
                          savedState'[p][k] = WafRecord(config[p], ipAddress[p])[k]
                   ELSE /\ savedState'[p] = savedState[p]
                        /\ InList(addresses, CidrOf(ipAddress[p]))
            ELSE IF sgRules' # sgRules
                   THEN \A k \in SgKeys :
                          savedState'[p][k] = SgRecord(config[p], ipAddress[p])[k]
                   ELSE /\ savedState'[p] = savedState[p]
                        /\ CidrOf(ipAddress[p]) \in sgRules]_vars

\* A run whose only grant found the entry already in the IPSet has ended in
\* success with nothing recorded, and cleanup() has made no call.
C16_Witness ==
  \E p \in Procs :
    /\ phase[p] = "done" /\ failed[p] = NoFailure
    /\ outputs[p].status = <<"success">>
    /\ Len(calls[p]) = 1 /\ calls[p][1].fn = "addIPToIPSet"
    /\ savedState[p] = EmptyState
    /\ InList(addresses, CidrOf(publicIP[p]))

\* C17 as stated: when main() has failed because a grant threw, no cleanup
\* state is recorded.
C17_NothingRecorded ==
  \A p \in Procs :
    (phase[p] = "ended" /\ failed[p] # NoFailure /\ calls[p] # <<>>) =>
      savedState[p] = EmptyState

\* C17 as amended: when main() fails because a grant threw, the grant that
\* threw has recorded nothing and marking the run failed leaves the record
\* as it is; nothing at all is recorded when the grant that threw was the
\* first of the run; when addIPToSecurityGroup throws after addIPToIPSet, a
\* record can exist: it is then the IPSet record of this run, whose entry is in
\* the IPSet and is left for cleanup().
C17_FailedGrantRecordsNothing ==
  [][\A p \in Procs :
       (phase[p] \in {"waf", "sg"} /\ failed'[p] # failed[p]) =>
         /\ fn[p] \in {"addIPToIPSet", "addIPToSecurityGroup"}
         /\ outcome[p] = "threw" /\ ~saves[p]
         /\ phase'[p] = "ended"
         /\ savedState'[p] = savedState[p]
         /\ \A k \in SgKeys : savedState[p][k] = <<>>
         /\ Len(calls[p]) = 1 => savedState[p] = EmptyState
         /\ savedState[p] # EmptyState =>
               /\ Len(calls[p]) = 2 /\ calls[p][1].fn = "addIPToIPSet"
               /\ fn[p] = "addIPToSecurityGroup"
               /\ savedState[p] = WafRecord(config[p], publicIP[p])
               /\ InList(addresses, CidrOf(publicIP[p]))]_vars

\* main() has failed in addIPToSecurityGroup after addIPToIPSet had written
\* and recorded its entry.
C17_Witness ==
  \E p \in Procs :
    /\ phase[p] = "ended" /\ failed[p] # NoFailure
    /\ fn[p] = "addIPToSecurityGroup" /\ outcome[p] = "threw"
    /\ savedState[p]["runner-ip"] = <<"a", "/", "3", "2">>
    /\ InList(addresses, <<"a", "/", "3", "2">>)

\* C18: when both address services have failed, main() has marked the run
\* failed with getPublicIP's error and has called neither mutator: no store
\* call was made, nothing is recorded, no output is set, and cleanup() ends
\* without a call.
C18_ResolverFailure ==
  \A p \in Procs :
    (Len(contacted[p]) = 2 /\ answer[p] = NoAnswer /\ phase[p] # "fallback") =>
      /\ phase[p] \in {"ended", "done"}
      /\ Len(failed[p]) = 3 /\ failed[p][1] = "Action failed: "
      /\ failed[p][2] = "Failed to get public IP: "
      /\ calls[p] = <<>> /\ fn[p] = "none" /\ pc[p] = "idle"
      /\ reads[p] = 0 /\ writes[p] = 0 /\ sends[p] = 0
      /\ savedState[p] = EmptyState /\ outputs[p] = NoOutputs
      /\ lockToken = 1

\* Both address services failed and cleanup() has ended.
C18_Witness ==
  \E p \in Procs :
    /\ phase[p] = "done" /\ Len(contacted[p]) = 2 /\ answer[p] = NoAnswer
    /\ failed[p] # NoFailure /\ calls[p] = <<>>

\* C19: getPublicIP returns the trimmed answer of the primary service having
\* asked the primary only; it asks the fallback service only after the
\* primary, and then returns the fallback's trimmed answer; it fails, with a
\* message that ends in the fallback's error message, only when both failed.
C19_LookupOrder ==
  \A p \in Procs :
    /\ answer[p].url = PrimaryUrl =>
          /\ contacted[p] = <<PrimaryUrl>>
          /\ IsTrimOf(publicIP[p], answer[p].data)
    /\ answer[p].url = FallbackUrl =>
          /\ contacted[p] = <<PrimaryUrl, FallbackUrl>>
          /\ IsTrimOf(publicIP[p], answer[p].data)
    /\ contacted[p] \in {<<>>, <<PrimaryUrl>>, <<PrimaryUrl, FallbackUrl>>}
    /\ answer[p] # NoAnswer => answer[p].data \in PrimaryData \cup FallbackData
    /\ (Len(failed[p]) >= 2 /\ failed[p][2] = "Failed to get public IP: ") =>
          /\ contacted[p] = <<PrimaryUrl, FallbackUrl>> /\ answer[p] = NoAnswer
          /\ \E m \in FallbackErrors :
                failed[p] = <<"Action failed: ", "Failed to get public IP: ">> \o m
    /\ (Len(contacted[p]) = 2 /\ answer[p] = NoAnswer /\ phase[p] # "fallback") =>
          Len(failed[p]) >= 2 /\ failed[p][2] = "Failed to get public IP: "

\* The primary service failed and the fallback's answer, trimmed, is the
\* address of the run.
C19_Witness ==
  \E p \in Procs :
    /\ answer[p] = [url |-> FallbackUrl, data |-> <<"b", "\n">>]
    /\ publicIP[p] = <<"b">> /\ contacted[p] = <<PrimaryUrl, FallbackUrl>>
    /\ calls[p] # <<>> /\ calls[p][1].ipAddress = <<"b">>

\* C20: from the end of main() on, whatever the revokes of cleanup() meet,
\* no step changes the message given to core.setFailed or the outputs: a run
\* that succeeded stays a success, a run that failed keeps its failure.
C20_CleanupContained ==
  [][\A p \in Procs :
       phase[p] \in {"ended", "post-waf", "post-sg", "done"} =>
         /\ failed'[p] = failed[p] /\ outputs'[p] = outputs[p]
         /\ phase'[p] \in {"post-waf", "post-sg", "done"}
              \/ phase'[p] = phase[p]]_vars

\* The revoke of the security-group rule gave up after five failures and
\* cleanup() has ended: the run is still a success and the rule is still there.
C20_Witness ==
  \E p \in Procs :
    /\ phase[p] = "done" /\ fn[p] = "removeIPFromSecurityGroup"
    /\ sends[p] = 5 /\ attempt[p] = 4 /\ faultsLeft = RunFaults - 5
    /\ failed[p] = NoFailure /\ outputs[p].status = <<"success">>
    /\ ipAddress[p] \in sgRules

\* C21: once main() has ended, the status output is 'success' when the run
\* succeeded and 'failed' when the run was marked failed.
C21_StatusSet ==
  \A p \in Procs :
    phase[p] \in {"ended", "post-waf", "post-sg", "done"} =>
      IF failed[p] = NoFailure
        THEN outputs[p].status = <<"success">>
        ELSE outputs[p].status = <<"failed">>

\* C22: main() goes on to the address lookup when the IPSet target (id and
\* name both non-empty), the security-group target (security-group-id
\* non-empty) or both are configured; with neither it marks the run failed
\* having asked no address service and made no store call.
C22_TargetValidation ==
  \A p \in Procs :
    phase[p] \notin {"off", "start"} =>
      LET c == config[p]
          waf == c.id # <<>> /\ c.name # <<>>
          sg == c.securityGroupId # <<>>
          noTarget == <<"Action failed: ">> \o NoTargetError
      IN IF ~waf /\ ~sg
           THEN /\ failed[p] = noTarget /\ phase[p] \in {"ended", "done"}
                /\ contacted[p] = <<>> /\ calls[p] = <<>>
                /\ reads[p] = 0 /\ writes[p] = 0 /\ sends[p] = 0
                /\ lockToken = 1 /\ outputs[p] = NoOutputs
           ELSE /\ failed[p] # noTarget
                /\ (~waf \/ c.scope \in {<<"CLOUDFRONT">>, <<"REGIONAL">>}) =>
                      contacted[p] # <<>>

\* A run with a name but no id and no security group has failed and ended.
C22_Witness ==
  \E p \in Procs :
    /\ phase[p] = "done" /\ config[p].id = <<>> /\ config[p].name # <<>>
    /\ config[p].securityGroupId = <<>>
    /\ failed[p] = <<"Action failed: ">> \o NoTargetError

\* C23: when the IPSet target is configured, main() goes on only when the
\* scope is exactly CLOUDFRONT or REGIONAL; with any other scope (another
\* word, lower case, empty) it marks the run failed with the invalid-scope
\* error having asked no address service and made no store call.
C23_ScopeValidation ==
  \A p \in Procs :
    (phase[p] \notin {"off", "start"} /\ config[p].id # <<>> /\ config[p].name # <<>>) =>
      LET c == config[p]
          invalid == <<"Action failed: ", "Invalid scope: ">> \o c.scope
                       \o <<". Must be CLOUDFRONT or REGIONAL">>
      IN IF c.scope = <<"CLOUDFRONT">> \/ c.scope = <<"REGIONAL">>
           THEN failed[p] # invalid /\ contacted[p] # <<>>
           ELSE /\ failed[p] = invalid /\ phase[p] \in {"ended", "done"}
                /\ contacted[p] = <<>> /\ calls[p] = <<>>
                /\ reads[p] = 0 /\ writes[p] = 0 /\ sends[p] = 0
                /\ lockToken = 1 /\ outputs[p] = NoOutputs

\* A run whose scope is 'regional' in lower case has failed, and a store
\* call was never made.
C23_Witness ==
  \E p \in Procs :
    /\ phase[p] = "done" /\ config[p].scope = <<"regional">>
    /\ failed[p] # NoFailure /\ calls[p] = <<>> /\ contacted[p] = <<>>

\* C24: a call of addIPToSecurityGroup whose first authorize is accepted has
\* returned after exactly one command and no sleep, and has saved four
\* fields: sg-runner-ip = the CIDR entry of the address, sg-group-id = the
\* group id, sg-description = the description and sg-aws-region = the region
\* it was called with; it saves nothing else.
C24_FirstCallRecords ==
  \A p \in Procs :
    (fn[p] = "addIPToSecurityGroup" /\ saves[p] /\ attempt[p] = 0) =>
      LET args == calls[p][Len(calls[p])]
      IN /\ outcome[p] = "returned" /\ sends[p] = 1 /\ sleeps[p] = 0
         /\ savedState[p]["sg-runner-ip"] = CidrOf(ipAddress[p])
         /\ savedState[p]["sg-group-id"] = args.groupId
         /\ savedState[p]["sg-description"] = args.description
         /\ savedState[p]["sg-aws-region"] = args.region
         /\ args.groupId = GroupId /\ args.region = Region
         /\ \A k \in WafKeys : savedState[p][k] = <<>>
         /\ CidrOf(ipAddress[p]) \in sgRules

\* The first authorize of a grant of a bare address with a description was
\* accepted.
C24_Witness ==
  \E p \in Procs :
    /\ fn[p] = "addIPToSecurityGroup" /\ ipAddress[p] = <<"a">> /\ saves[p]
    /\ sends[p] = 1 /\ faultsLeft = StormFaults
    /\ savedState[p]["sg-runner-ip"] = <<"a", "/", "3", "2">>
    /\ savedState[p]["sg-description"] = Description

\* C25: when addIPToSecurityGroup is called without a description, the
\* command it sends carries, and the sg-description field it saves is, the
\* default 'Temporary access from GitHub Actions runner'.
C25_DefaultDescription ==
  \A p \in Procs :
    ( /\ fn[p] = "addIPToSecurityGroup"
      /\ calls[p][Len(calls[p])].description = undefined ) =>
      /\ pc[p] = "send" =>
            command[p].Description = <<"Temporary access from GitHub Actions runner">>
      /\ saves[p] =>
            savedState[p]["sg-description"] =
              <<"Temporary access from GitHub Actions runner">>

\* C26: the list in an UpdateIPSet command keeps every entry of the list
\* just read other than the call's entry, unchanged and in the same order; a
\* grant sends the list read followed by its CIDR entry as last element, a
\* revoke sends the list read without any element equal to its entry.
C26_WriteFrame ==
  \A p \in Procs :
    pc[p] = "update" =>
      LET read == lastRead[p].Addresses
          sent == command[p].Addresses
          e == IF fn[p] = "addIPToIPSet" THEN CidrOf(ipAddress[p]) ELSE ipAddress[p]
      IN /\ Without(sent, e) = Without(read, e)
         /\ read = addresses \/ lockToken # lastRead[p].LockToken
         /\ fn[p] = "addIPToIPSet" =>
               /\ Len(sent) = Len(read) + 1
               /\ sent[Len(sent)] = e
               /\ SubSeq(sent, 1, Len(read)) = read
         /\ fn[p] = "removeIPFromIPSet" =>
               /\ ~InList(sent, e)
               /\ Len(sent) = Len(read) - Occurrences(read, e)

\* A revoke is sending the list it read without its entry, which was the
\* first of two: the other entry is kept.
C26_Witness ==
  \E p \in Procs :
    /\ pc[p] = "update" /\ fn[p] = "removeIPFromIPSet"
    /\ lastRead[p].Addresses = <<<<"a", "/", "3", "2">>, Foreign>>
    /\ command[p].Addresses = <<Foreign>>

\* C27 (as stated): a revoke works on the CIDR form of its address: an IPSet
\* revoke that has returned after one read, with no other writer and no
\* failed store call, leaves no CIDR form of its address in the IPSet, and a
\* security-group revoke sends the CIDR form of its address.
C27_RevokeNormalizes ==
  \A p \in Procs :
    /\ ( /\ fn[p] = "removeIPFromIPSet" /\ outcome[p] = "returned"
          /\ reads[p] = 1 /\ sleeps[p] = 0
          /\ extLeft = StormExternal /\ faultsLeft = StormFaults ) =>
          ~InList(addresses, CidrOf(ipAddress[p]))
    /\ (fn[p] = "removeIPFromSecurityGroup" /\ pc[p] = "send") =>
          command[p].CidrIp = CidrOf(ipAddress[p])

\* C27 (amended): a revoke does not normalize: it tests membership and
\* removes by exact equality on the address as given.  An IPSet revoke sends
\* an update only if the list just read holds the address as given, and then
\* sends that list without the elements equal to it; if the list read does
\* not hold the address as given it returns without writing, whether or not
\* the list holds the address's CIDR form.  A security-group revoke sends
\* the address as given.
C27_RevokeAsGiven ==
  \A p \in Procs :
    /\ (fn[p] = "removeIPFromIPSet" /\ pc[p] = "update") =>
          /\ InList(lastRead[p].Addresses, ipAddress[p])
          /\ command[p].Addresses = Without(lastRead[p].Addresses, ipAddress[p])
    /\ ( /\ fn[p] = "removeIPFromIPSet" /\ lastRead[p] # NoRead
          /\ ~InList(lastRead[p].Addresses, ipAddress[p]) ) =>
          /\ pc[p] = "idle" /\ outcome[p] = "returned" /\ error[p] = NoError
          /\ lastRead[p].attempt = attempt[p]
    /\ ( /\ fn[p] = "removeIPFromIPSet" /\ ~includesSlash(ipAddress[p])
          /\ extLeft = StormExternal ) =>
          /\ writes[p] = 0
          /\ InList(addresses, CidrOf(ipAddress[p])) <=>
                (\E l \in InitialAddresses :
                    InList(l, CidrOf(ipAddress[p])) /\ addresses = l)
    /\ (fn[p] = "removeIPFromSecurityGroup" /\ pc[p] = "send") =>
          command[p].CidrIp = ipAddress[p]

\* A revoke of a bare address has returned after one read and no write while
\* the IPSet holds the address's /32 form.
C27_Witness ==
  \E p \in Procs :
    /\ fn[p] = "removeIPFromIPSet" /\ ipAddress[p] = <<"a">>
    /\ outcome[p] = "returned" /\ reads[p] = 1 /\ writes[p] = 0
    /\ faultsLeft = StormFaults
    /\ InList(addresses, <<"a", "/", "3", "2">>)

\* C28: in cleanup() the security-group revoke does not depend on the IPSet
\* revoke.  When the IPSet revoke has ended - entry removed, entry not
\* there, attempts used up on lock conflicts or on other failures - it has
\* returned, and cleanup() then starts removeIPFromSecurityGroup with the
\* saved sg-runner-ip if and only if the saved sg-runner-ip, sg-group-id and
\* sg-aws-region are all there; with no saved IPSet fields the
\* security-group revoke starts at once.  The IPSet revoke is called with
\* the IPSet fields only, the security-group revoke with the sg- fields
\* only, and neither changes the saved state.
C28_RevokesIndependent ==
  [][\A p \in Procs :
       LET sgState == \A k \in {"sg-runner-ip", "sg-group-id", "sg-aws-region"} :
                         savedState[p][k] # <<>>
           wafState == \A k \in WafKeys : savedState[p][k] # <<>>
           sgStarts == /\ phase'[p] = "post-sg"
                       /\ fn'[p] = "removeIPFromSecurityGroup" /\ pc'[p] = "send"
                       /\ command'[p].CidrIp = savedState[p]["sg-runner-ip"]
                       /\ calls'[p][Len(calls'[p])].groupId = savedState[p]["sg-group-id"]
                       /\ calls'[p][Len(calls'[p])].id = <<>>
       IN /\ (phase[p] = "post-waf" /\ phase'[p] # "post-waf") =>
               /\ fn[p] = "removeIPFromIPSet" /\ outcome[p] = "returned"
               /\ calls[p][Len(calls[p])].groupId = <<>>
               /\ IF sgState THEN sgStarts ELSE phase'[p] = "done"
          /\ (phase[p] = "ended" /\ phase'[p] # "ended" /\ ~wafState) =>
               IF sgState THEN sgStarts ELSE phase'[p] = "done"
          /\ (phase'[p] = "done" /\ sgState) =>
               fn'[p] = "removeIPFromSecurityGroup" /\ sends'[p] >= 1
          /\ savedState' = savedState]_vars

\* The IPSet revoke used up its ten attempts on lock conflicts and left the
\* entry in the IPSet; the security-group revoke ran all the same and removed
\* the rule.
C28_Witness ==
  \E p \in Procs :
    /\ phase[p] = "done" /\ fn[p] = "removeIPFromSecurityGroup"
    /\ prev[p].fn = "removeIPFromIPSet" /\ prev[p].outcome = "returned"
    /\ extLeft = CleanupExternal - 10
    /\ InList(addresses, savedState[p]["runner-ip"])
    /\ savedState[p]["sg-runner-ip"] \notin sgRules
    /\ sends[p] = 1 /\ faultsLeft = CleanupFaults

\* C29: no duplicates under concurrency.  The IPSet starts without two equal
\* entries, and in every interleaving of the processes' addIPToIPSet and
\* removeIPFromIPSet calls, several of them granting the same entry at once
\* included, it never holds two equal entries.
C29_NoDuplicates ==
  \A i, j \in 1..Len(addresses) : addresses[i] = addresses[j] => i = j

\* Two processes granted the same entry at the same time: one wrote it, the
\* other lost the race, read again and found it, and the IPSet holds it once.
C29_Witness ==
  \E p, q \in Procs :
    /\ p # q
    /\ fn[p] = "addIPToIPSet" /\ fn[q] = "addIPToIPSet"
    /\ CidrOf(ipAddress[p]) = CidrOf(ipAddress[q])
    /\ outcome[p] = "returned" /\ saves[p]
    /\ outcome[q] = "returned" /\ conflicts[q] = 1 /\ ~saves[q]
    /\ Occurrences(addresses, CidrOf(ipAddress[q])) = 1

C31_PairedRunsConverge ==
  LET entry(p) == CidrOf(publicIP[p])
      pre == /\ faultsLeft = PairedFaults
             /\ \A p \in Procs : publicIP[p] # <<>> /\ ~InList(initial, entry(p))
             /\ \A p, q \in Procs : p # q => entry(p) # entry(q)
  IN /\ ( /\ pre
          /\ \A p \in Procs :
                /\ phase[p] = "ended"
                /\ fn[p] = "addIPToIPSet" /\ outcome[p] = "returned" )
        => /\ Len(addresses) = Len(initial) + NProcs
           /\ SubSeq(addresses, 1, Len(initial)) = initial
           /\ \A p \in Procs : Occurrences(addresses, entry(p)) = 1
     /\ ( /\ pre
          /\ \A p \in Procs :
                /\ phase[p] = "done"
                /\ prev[p].fn = "addIPToIPSet" /\ prev[p].outcome = "returned"
                /\ fn[p] = "removeIPFromIPSet" )
        => addresses = initial

\* Every run granted its own entry, losing a race on the way, and every run
\* has cleaned up: the IPSet holds the other writer's entry it started with.
C31_Witness ==
  /\ faultsLeft = PairedFaults
  /\ initial = <<Foreign>> /\ addresses = initial
  /\ \A p \in Procs :
        /\ phase[p] = "done" /\ fn[p] = "removeIPFromIPSet"
        /\ prev[p].fn = "addIPToIPSet" /\ prev[p].outcome = "returned"
  /\ \A p, q \in Procs : p # q => CidrOf(publicIP[p]) # CidrOf(publicIP[q])
  /\ \E p \in Procs : conflicts[p] > 0

\* C32: access is held for the unit of work.  Once a run's addIPToIPSet has
\* returned without an error, the run's entry is in the IPSet for as long as
\* the run has not begun its cleanup, whatever the other runs do on the same
\* IPSet, runs that resolved the same address included.
C32_AccessHeld ==
  \A p \in Procs :
    ( /\ phase[p] \in {"waf", "ended"}
      /\ fn[p] = "addIPToIPSet" /\ outcome[p] = "returned" )
    => InList(addresses, CidrOf(publicIP[p]))

\* C33: a run only undoes what it wrote.  The IPSet fields of the saved state
\* change only in the step in which the run's own UpdateIPSet is accepted and
\* adds its entry to a list that did not hold it, the sg- fields only in the
\* step in which its own authorize adds a rule that was not there.  cleanup()
\* starts a revoke only for a mutator whose fields are saved.  When the run's
\* entry was in the IPSet (its rule in the security group) before the run,
\* nothing is saved for that mutator, no revoke of that mutator is ever
\* called, and the entry (the rule) is still there at every moment of the run
\* and after it.
C33_UndoesOwnWrites ==
  [][\A p \in Procs :
       LET e == CidrOf(ipAddress[p])
           mine == CidrOf(publicIP'[p])
           called(f) == \E i \in 1..Len(calls'[p]) : calls'[p][i].fn = f
       IN /\ (\E k \in WafKeys : savedState'[p][k] # savedState[p][k]) =>
               /\ fn[p] = "addIPToIPSet" /\ pc[p] = "update"
               /\ lockToken' = lockToken + 1
               /\ ~InList(addresses, e) /\ addresses' = Append(addresses, e)
               /\ savedState'[p]["runner-ip"] = e
          /\ (\E k \in SgKeys : savedState'[p][k] # savedState[p][k]) =>
               /\ fn[p] = "addIPToSecurityGroup" /\ pc[p] = "send"
               /\ e \notin sgRules /\ sgRules' = sgRules \cup {e}
               /\ savedState'[p]["sg-runner-ip"] = e
          /\ (fn'[p] = "removeIPFromIPSet" /\ fn[p] # "removeIPFromIPSet") =>
               /\ savedState[p]["runner-ip"] # <<>>
               /\ ipAddress'[p] = savedState[p]["runner-ip"]
          /\ (fn'[p] = "removeIPFromSecurityGroup"
                /\ fn[p] # "removeIPFromSecurityGroup") =>
               /\ savedState[p]["sg-runner-ip"] # <<>>
               /\ ipAddress'[p] = savedState[p]["sg-runner-ip"]
          /\ (publicIP'[p] # <<>> /\ InList(initial, mine)) =>
               /\ InList(addresses', mine)
               /\ \A k \in WafKeys : savedState'[p][k] = <<>>
               /\ ~called("removeIPFromIPSet")
          /\ (publicIP'[p] # <<>> /\ mine \in initialRules) =>
               /\ mine \in sgRules'
               /\ \A k \in SgKeys : savedState'[p][k] = <<>>
               /\ ~called("removeIPFromSecurityGroup")]_vars

\* The run found its entry in the IPSet and its rule in the security group:
\* both grants returned, nothing was saved, cleanup() has ended without a
\* store call and both are still there.
C33_Witness ==
  \E p \in Procs :
    /\ phase[p] = "done" /\ publicIP[p] = <<"a">>
    /\ outputs[p].status = <<"success">>
    /\ Len(calls[p]) = 2 /\ fn[p] = "addIPToSecurityGroup"
    /\ InList(initial, <<"a", "/", "3", "2">>)
    /\ <<"a", "/", "3", "2">> \in initialRules
    /\ savedState[p] = EmptyState
    /\ InList(addresses, <<"a", "/", "3", "2">>)
    /\ <<"a", "/", "3", "2">> \in sgRules

\* C34: order of the main phase.  An address service is contacted only with
\* valid inputs (a target configured, and a scope of CLOUDFRONT or REGIONAL
\* if the IPSet is one); a mutator is called only with the resolved address;
\* addIPToSecurityGroup is never called before addIPToIPSet, and with an
\* IPSet configured only after addIPToIPSet has returned without an error;
\* while a grant has failed no later grant is called and no output is set;
\* and the outputs are set, to the resolved address and 'success', only when
\* every configured grant has been called and returned.
C34_MainOrder ==
  \A p \in Procs :
    LET c == config[p]
        waf == c.id # <<>> /\ c.name # <<>>
        sg == c.securityGroupId # <<>>
        n == Len(calls[p])
        grants == {i \in 1..n : calls[p][i].fn \in {"addIPToIPSet", "addIPToSecurityGroup"}}
    IN /\ contacted[p] # <<>> =>
            /\ waf \/ sg
            /\ waf => c.scope \in {<<"CLOUDFRONT">>, <<"REGIONAL">>}
       /\ n > 0 =>
            /\ contacted[p] # <<>> /\ answer[p] # NoAnswer /\ publicIP[p] # <<>>
            /\ \A i \in grants : calls[p][i].ipAddress = publicIP[p]
            /\ calls[p][1].fn = IF waf THEN "addIPToIPSet" ELSE "addIPToSecurityGroup"
       /\ \A i \in grants :
            /\ calls[p][i].fn = "addIPToIPSet" => i = 1 /\ waf
            /\ calls[p][i].fn = "addIPToSecurityGroup" => sg /\ i = (IF waf THEN 2 ELSE 1)
       /\ (fn[p] = "addIPToSecurityGroup" /\ waf) =>
            prev[p].fn = "addIPToIPSet" /\ prev[p].outcome = "returned"
       /\ ( /\ fn[p] \in {"addIPToIPSet", "addIPToSecurityGroup"}
            /\ outcome[p] # "returned" ) =>
            /\ outputs[p] = NoOutputs
            /\ n = (IF fn[p] = "addIPToIPSet" \/ ~waf THEN 1 ELSE 2)
       /\ outputs[p] # NoOutputs =>
            /\ outputs[p] = [ipAddress |-> publicIP[p], status |-> <<"success">>]
            /\ failed[p] = NoFailure
            /\ Cardinality(grants) = (IF waf THEN 1 ELSE 0) + (IF sg THEN 1 ELSE 0)
            /\ phase[p] = "ended" =>
                  /\ outcome[p] = "returned"
                  /\ fn[p] = IF sg THEN "addIPToSecurityGroup" ELSE "addIPToIPSet"

\* With both targets configured the IPSet grant failed: main() has ended with
\* one call made, no security-group grant and no output.
C34_Witness ==
  \E p \in Procs :
    /\ phase[p] = "ended"
    /\ config[p].id # <<>> /\ config[p].securityGroupId # <<>>
    /\ fn[p] = "addIPToIPSet" /\ outcome[p] = "threw"
    /\ Len(calls[p]) = 1 /\ outputs[p] = NoOutputs /\ failed[p] # NoFailure

\* C35: cleanup needs complete state.  cleanup() calls removeIPFromIPSet only
\* if runner-ip, ipset-id, ipset-name, ipset-scope and aws-region are all
\* non-empty, and removeIPFromSecurityGroup only if sg-runner-ip, sg-group-id
\* and sg-aws-region are all non-empty; an empty sg-description does not
\* prevent it: once cleanup() has ended, each revoke whose fields are
\* complete has been called.  With neither set complete cleanup() makes no
\* call and the stores are as they were.
C35_CompleteState ==
  \A p \in Procs :
    LET st == savedState[p]
        wafComplete == \A k \in WafKeys : st[k] # <<>>
        sgComplete == \A k \in SgKeys \ {"sg-description"} : st[k] # <<>>
        called(f) == \E i \in 1..Len(calls[p]) : calls[p][i].fn = f
    IN /\ called("removeIPFromIPSet") => wafComplete
       /\ called("removeIPFromSecurityGroup") => sgComplete
       /\ phase[p] = "done" =>
            /\ wafComplete => called("removeIPFromIPSet")
            /\ sgComplete => called("removeIPFromSecurityGroup")
       /\ (phase[p] # "off" /\ ~wafComplete /\ ~sgComplete) =>
            /\ calls[p] = <<>> /\ pc[p] = "idle" /\ fn[p] = "none"
            /\ phase[p] \in {"ended", "done"}
            /\ addresses = initial /\ sgRules = initialRules

\* The saved IPSet fields lack the region, the saved sg- fields lack only the
\* description: cleanup() has ended after the security-group revoke alone,
\* which removed the rule, and the entry is still in the IPSet.
C35_Witness ==
  \E p \in Procs :
    /\ phase[p] = "done"
    /\ savedState[p]["runner-ip"] # <<>> /\ savedState[p]["aws-region"] = <<>>
    /\ savedState[p]["sg-runner-ip"] # <<>> /\ savedState[p]["sg-description"] = <<>>
    /\ Len(calls[p]) = 1 /\ calls[p][1].fn = "removeIPFromSecurityGroup"
    /\ savedState[p]["sg-runner-ip"] \in initialRules
    /\ savedState[p]["sg-runner-ip"] \notin sgRules
    /\ InList(addresses, savedState[p]["runner-ip"])

\* C36: bounded termination of every operation.  Whatever the store answers,
\* lock conflicts and other errors mixed in any order, a call of addIPToIPSet
\* or removeIPFromIPSet makes at most 10 reads and at most 10 writes, and its
\* lock conflicts and other failures together are at most 10: they draw on
\* the same attempt counter, every failed attempt being one or the other.  A
\* call of addIPToSecurityGroup or removeIPFromSecurityGroup sends at most 5
\* commands.  Every store call and every sleep returning, the call made ends.
C36_BoundedTermination ==
  /\ [](\A p \in Procs :
          LET failures == conflicts[p] + (StormFaults - faultsLeft)
          IN /\ fn[p] \in {"addIPToIPSet", "removeIPFromIPSet"} =>
                  /\ reads[p] <= 10 /\ writes[p] <= 10 /\ writes[p] <= reads[p]
                  /\ sends[p] = 0
                  /\ failures <= 10
                  /\ failures <= reads[p] /\ reads[p] <= failures + 1
                  /\ attempt[p] <= failures
             /\ fn[p] \in {"addIPToSecurityGroup", "removeIPFromSecurityGroup"} =>
                  /\ sends[p] <= 5 /\ reads[p] = 0 /\ writes[p] = 0
                  /\ StormFaults - faultsLeft <= 5
                  /\ sends[p] <= (StormFaults - faultsLeft) + 1)
  /\ <>[](\A p \in Procs :
            /\ callsLeft[p] = 0 /\ pc[p] = "idle"
            /\ fn[p] # "none" => outcome[p] \in {"returned", "threw"})

\* A revoke has ended after ten attempts, five of which met a lock conflict
\* and five another error.
C36_Witness ==
  \E p \in Procs :
    /\ fn[p] = "removeIPFromIPSet" /\ pc[p] = "idle" /\ outcome[p] = "returned"
    /\ conflicts[p] = 5 /\ StormFaults - faultsLeft = 5
    /\ reads[p] = 10 /\ attempt[p] >= 9

\* C37: number of backoff sleeps.  A call of addIPToSecurityGroup or
\* removeIPFromSecurityGroup sleeps after a failed attempt that is not its
\* fifth: its k-th sleep lasts 1000 * 2^(k-1) ms, and when its five attempts
\* have failed it has ended after exactly 4 sleeps (1000, 2000, 4000 and
\* 8000 ms).  A call of addIPToIPSet or removeIPFromIPSet whose store calls
\* fail on lock conflicts only sleeps once after each conflict, the tenth
\* included: after the tenth conflict it is in its tenth sleep, of 512000 ms
\* plus the jitter, and only after it has the grant thrown the lock-conflict
\* error and the revoke returned.
C37_SleepCount ==
  \A p \in Procs :
    /\ fn[p] \in {"addIPToSecurityGroup", "removeIPFromSecurityGroup"} =>
         /\ sleeps[p] <= 4
         /\ pc[p] = "sleep" =>
               /\ delay[p] = 1000 * (2 ^ (sleeps[p] - 1))
               /\ sleeps[p] = sends[p] /\ sends[p] <= 4
         /\ (pc[p] = "idle" /\ StormFaults - faultsLeft = 5) =>
               sends[p] = 5 /\ sleeps[p] = 4
    /\ (fn[p] \in {"addIPToIPSet", "removeIPFromIPSet"}
          /\ faultsLeft = StormFaults) =>
         /\ sleeps[p] = conflicts[p] /\ sleeps[p] <= 10
         /\ (conflicts[p] = 10 /\ attempt[p] = 9) =>
               /\ pc[p] = "sleep" /\ outcome[p] = "running"
               /\ delay[p] >= 512000 /\ delay[p] < 513000
         /\ (conflicts[p] = 10 /\ pc[p] = "idle") =>
               /\ attempt[p] = 10 /\ sleeps[p] = 10
               /\ IF fn[p] = "addIPToIPSet"
                    THEN outcome[p] = "threw" /\ error[p] = LockConflictsError
                    ELSE outcome[p] = "returned"

\* A revoke that met ten lock conflicts has returned after its tenth sleep.
C37_Witness ==
  \E p \in Procs :
    /\ fn[p] = "removeIPFromIPSet" /\ pc[p] = "idle" /\ outcome[p] = "returned"
    /\ conflicts[p] = 10 /\ sleeps[p] = 10 /\ writes[p] = 10
    /\ faultsLeft = StormFaults

\* C38: round trip.  With no other writer and no failing store call, a run
\* whose entry was not in the IPSet at the start has, once its addIPToIPSet
\* has returned, made one accepted write that put the entry after the initial
\* list, and, once its cleanup() has ended, called removeIPFromIPSet with the
\* entry it saved and made one more accepted write: the IPSet is the initial
\* list again, element for element, after exactly two accepted writes.
C38_RoundTrip ==
  \A p \in Procs :
    LET e == CidrOf(publicIP[p])
        n == Len(calls[p])
        revokes == {i \in 1..n : calls[p][i].fn = "removeIPFromIPSet"}
    IN ( /\ extLeft = RunExternal /\ faultsLeft = RunFaults
         /\ n > 0 /\ calls[p][1].fn = "addIPToIPSet"
         /\ ~InList(initial, e) )
       => /\ (n > 1 \/ outcome[p] = "returned") =>
               /\ savedState[p]["runner-ip"] = e
               /\ lockToken >= 2
          /\ (revokes = {} /\ lockToken = 2) => addresses = Append(initial, e)
          /\ \A i \in revokes : calls[p][i].ipAddress = e
          /\ phase[p] = "done" =>
               /\ Cardinality(revokes) = 1
               /\ addresses = initial
               /\ lockToken = 3

\* The run added its entry to an IPSet that held another writer's entry and
\* removed it again in its cleanup: two accepted writes, the list as before.
C38_Witness ==
  \E p \in Procs :
    /\ phase[p] = "done" /\ publicIP[p] = <<"a">>
    /\ extLeft = RunExternal /\ faultsLeft = RunFaults
    /\ Len(calls[p]) = 2
    /\ calls[p][1].fn = "addIPToIPSet" /\ calls[p][2].fn = "removeIPFromIPSet"
    /\ calls[p][2].ipAddress = <<"a", "/", "3", "2">>
    /\ initial = <<Foreign>> /\ addresses = <<Foreign>> /\ lockToken = 3

====
